---------------------------- MODULE Spec2Model ----------------------------
(***************************************************************************)
(* Node quantization configuration model of model_compression_toolkit:     *)
(*   core/common/quantization/node_quantization_config.py                  *)
(*   core/keras/graph_substitutions/substitutions/concat_threshold_update.py*)
(* Python objects are records, dicts are functions over their key set,     *)
(* None is the empty tuple, and a raised exception is an outcome status    *)
(* that leaves the object as it was when the exception was raised.         *)
(***************************************************************************)
EXTENDS Naturals, Sequences, FiniteSets, TLC

VARIABLES
    nw,       \* the NodeWeightsQuantizationConfig under construction / lookup
    nw_in,    \* the arguments its constructor was called with
    nw_res,   \* outcome of the last NodeWeightsQuantizationConfig operation
    nw_sets,  \* number of set_attr_config calls made so far
    nw_ids,   \* identity of the config object stored under each attribute key
    wa,       \* a WeightsAttrQuantizationConfig
    wa_res,   \* outcome of the last WeightsAttrQuantizationConfig operation
    act,      \* a NodeActivationQuantizationConfig
    act_res,  \* outcome of the last NodeActivationQuantizationConfig operation
    g_edges,  \* the graph's edges, as <<source, sink>> pairs
    g_concat, \* the nodes whose layer type is Concatenate
    g_params, \* per node: candidates_quantization_cfg[0].activation_quantization_cfg.activation_quantization_params
    g_res,    \* outcome of the last substitute call
    heap,     \* the configs of several nodes: references, objects and their dicts
    alone,    \* per node: the heap when only that node's calls are run
    wrapper,  \* a PytorchQuantizationWrapper and the layer it wraps
    wr_res    \* outcome of the last PytorchQuantizationWrapper operation

vars == <<nw, nw_in, nw_res, nw_sets, nw_ids, wa, wa_res, act, act_res,
          g_edges, g_concat, g_params, g_res, heap, alone, wrapper, wr_res>>

nw_vars  == <<nw, nw_in, nw_res, nw_sets, nw_ids>>
wa_vars  == <<wa, wa_res>>
act_vars == <<act, act_res>>
g_vars   == <<g_edges, g_concat, g_params, g_res>>
heap_vars == <<heap, alone>>
wr_vars  == <<wrapper, wr_res>>

---------------------------------------------------------------------------
(* Bounds of the model.                                                    *)

MaxAttrs == 2       \* longest node_attrs_list
MaxKeys == 2        \* most keys in op_cfg.attr_weights_configs_mapping
MaxSets == 1        \* most set_attr_config calls in one behaviour
MaxParamValue == 2  \* numeric parameter values are 1..MaxParamValue
NumNodes == 3       \* nodes of the graph the substitution runs on
MaxThreshold == 2   \* calibrated activation thresholds are 1..MaxThreshold
MaxCalls == 3       \* most calls made on the configs of several nodes

---------------------------------------------------------------------------
(* Python values.                                                          *)

None == <<>>

Some(v) == <<v>>

EmptyDict == [k \in {} |-> 0]

\* d[key] = value
DictSet(d, key, value) ==
    [k \in DOMAIN d \cup {key} |-> IF k = key THEN value ELSE d[k]]

\* d.get(key): the value wrapped in a 1-tuple, or None
DictGet(d, key) == IF key \in DOMAIN d THEN Some(d[key]) ELSE None

\* for k, v in u.items(): d[k] = v
DictUpdate(d, u) ==
    [k \in DOMAIN d \cup DOMAIN u |-> IF k \in DOMAIN u THEN u[k] ELSE d[k]]

\* {k: v for k, v in d.items() if k in keys}
DictRestrict(d, keys) == [k \in DOMAIN d \cap keys |-> d[k]]

\* Python's `s in t` on strings; a string is the tuple of its characters.
IsSubstring(s, t) ==
    \E i \in 0..Len(t) : i + Len(s) <= Len(t) /\ SubSeq(t, i + 1, i + Len(s)) = s

---------------------------------------------------------------------------
(* External collaborators: the logger, the enumerations, the registry and  *)
(* the configuration classes the constructors read.                        *)

\* Logger.critical logs and raises; Logger.error logs and raises;
\* Logger.warning logs and returns.
Logger_critical == "raise"
Logger_error == "raise"
Logger_warning == "continue"

QuantizationMethod == {"POWER_OF_TWO", "SYMMETRIC"}
QuantizationErrorMethod == {"MSE", "NOCLIPPING"}

\* The registry: pure lookups keyed by the quantization method alone.
get_weights_quantization_fn(method) == <<"weights_quantization_fn", method>>
get_weights_quantization_params_fn(method) == <<"weights_params_fn", method>>
get_activation_quantization_params_fn(method) == <<"activation_params_fn", method>>

\* AttributeQuantizationConfig instances of the platform capabilities.
CfgKernel ==
    [weights_quantization_method |-> "POWER_OF_TWO", weights_n_bits |-> 8,
     weights_per_channel_threshold |-> TRUE, enable_weights_quantization |-> TRUE]
CfgBias ==
    [weights_quantization_method |-> "SYMMETRIC", weights_n_bits |-> 4,
     weights_per_channel_threshold |-> FALSE, enable_weights_quantization |-> TRUE]
CfgOff ==
    [weights_quantization_method |-> "SYMMETRIC", weights_n_bits |-> 8,
     weights_per_channel_threshold |-> TRUE, enable_weights_quantization |-> FALSE]
AttributeQuantizationConfigs == {CfgKernel, CfgBias, CfgOff}

\* QuantizationConfig: the fields the node configs read.
QuantizationConfigs ==
    [weights_error_method : QuantizationErrorMethod,
     activation_error_method : QuantizationErrorMethod,
     l_p_value : {2}, min_threshold : {1},
     weights_second_moment_correction : {FALSE}, weights_bias_correction : {TRUE},
     relu_bound_to_power_of_2 : {FALSE}, activation_channel_equalization : {FALSE},
     input_scaling : {FALSE}, shift_negative_activation_correction : {FALSE},
     z_threshold : {3}, shift_negative_ratio : {1},
     shift_negative_threshold_recalculation : {FALSE}]

\* The configs that differ in what the weights (resp. activation) configs read.
WeightsQcs == {q \in QuantizationConfigs : q.activation_error_method = "MSE"}
ActivationQcs == {q \in QuantizationConfigs : q.weights_error_method = "MSE"}

\* OpQuantizationConfig: the fields NodeActivationQuantizationConfig reads.
ActivationOpCfgs ==
    [activation_quantization_method : QuantizationMethod,
     activation_n_bits : {8},
     enable_activation_quantization : BOOLEAN]

\* Callables a caller can pass or install: a user function, or None.
UserFns == {<<"user_fn", "f">>, None}

\* Names and values of numeric quantization parameters.
THRESHOLD == "threshold"
ParamNames == {THRESHOLD, "scale"}

\* weights_channels_axis: None or a pair of axis indices
ChannelAxes == {None, <<0, 1>>, <<1, 0>>}

---------------------------------------------------------------------------
(* class WeightsAttrQuantizationConfig                                     *)

\* Bug variant: the setter stores the value and leaves the bound function.
weights_error_method_setter_no_rebind(self, value) ==
    [self EXCEPT !.weights_error_method = value]

\* @weights_error_method.setter: stores the value and re-derives the bound
\* params function from the config's current quantization method.
weights_error_method_setter(self, value) ==
    [self EXCEPT
        !.weights_error_method = value,
        !.weights_quantization_params_fn =
            get_weights_quantization_params_fn(self.weights_quantization_method)]

\* __init__(qc, weights_attr_cfg, weights_channels_axis), assignment by
\* assignment; weights_error_method does not exist before its setter runs.
WeightsAttrQuantizationConfig(qc, weights_attr_cfg, weights_channels_axis) ==
    LET s1 == [weights_quantization_fn |->
                   get_weights_quantization_fn(weights_attr_cfg.weights_quantization_method),
               weights_quantization_params_fn |->
                   get_weights_quantization_params_fn(weights_attr_cfg.weights_quantization_method),
               weights_channels_axis |-> weights_channels_axis,
               weights_quantization_params |-> EmptyDict,
               weights_quantization_method |-> weights_attr_cfg.weights_quantization_method,
               weights_error_method |-> "unset",
               weights_n_bits |-> weights_attr_cfg.weights_n_bits,
               weights_per_channel_threshold |-> weights_attr_cfg.weights_per_channel_threshold,
               enable_weights_quantization |-> weights_attr_cfg.enable_weights_quantization,
               l_p_value |-> qc.l_p_value]
    IN  weights_error_method_setter(s1, qc.weights_error_method)

\* set_weights_quantization_fn / set_weights_quantization_params_fn
set_weights_quantization_fn(self, fn) ==
    [self EXCEPT !.weights_quantization_fn = fn]

set_weights_quantization_params_fn(self, fn) ==
    [self EXCEPT !.weights_quantization_params_fn = fn]

\* set_weights_quantization_param(weights_params): the assert, then the
\* key-by-key update of the stored dict.
set_weights_quantization_param(self, weights_params) ==
    IF ~self.enable_weights_quantization
    THEN [status |-> "AssertionError", self |-> self]
    ELSE [status |-> "ok",
          self |-> [self EXCEPT !.weights_quantization_params =
                                    DictUpdate(@, weights_params)]]

\* per_channel=self.weights_per_channel_threshold and self.weights_channels_axis is not None
PerChannelArg(self) ==
    self.weights_per_channel_threshold /\ self.weights_channels_axis # None

\* Bug variant: the other component of the pair is passed.
ChannelAxisArgSecond(self) ==
    IF self.weights_channels_axis = None
    THEN [status |-> "TypeError", value |-> 0]
    ELSE [status |-> "ok", value |-> self.weights_channels_axis[2]]

\* channel_axis=self.weights_channels_axis[0]; subscripting None raises TypeError.
\* Python index 0 is the first component of the pair.
ChannelAxisArg(self) ==
    IF self.weights_channels_axis = None
    THEN [status |-> "TypeError", value |-> 0]
    ELSE [status |-> "ok", value |-> self.weights_channels_axis[1]]

\* The keyword arguments weights_quantization_params_fn is called with.
\* and the dict it returned.
NoCall == [called |-> FALSE, fn |-> None, p |-> 0, n_bits |-> 0,
           per_channel |-> FALSE, channel_axis |-> 0, min_threshold |-> 0,
           result |-> EmptyDict]

ParamsFnCall(self, min_threshold, fn_result) ==
    [called |-> TRUE, fn |-> self.weights_quantization_params_fn,
     p |-> self.l_p_value, n_bits |-> self.weights_n_bits,
     per_channel |-> PerChannelArg(self),
     channel_axis |-> ChannelAxisArg(self).value,
     min_threshold |-> min_threshold,
     result |-> fn_result]

\* Bug variant: the method's own assert is missing, so the params function
\* runs before set_weights_quantization_param refuses the result.
calculate_without_own_assert(self, min_threshold, fn_result) ==
    IF self.weights_quantization_params_fn # None
    THEN IF ChannelAxisArg(self).status # "ok"
         THEN [status |-> ChannelAxisArg(self).status, self |-> self, call |-> NoCall]
         ELSE [status |-> set_weights_quantization_param(self, fn_result).status,
               self |-> set_weights_quantization_param(self, fn_result).self,
               call |-> ParamsFnCall(self, min_threshold, fn_result)]
    ELSE [status |-> set_weights_quantization_param(self, EmptyDict).status,
          self |-> set_weights_quantization_param(self, EmptyDict).self,
          call |-> NoCall]

\* Bug variant: with no function bound the stored dict is replaced by {}.
calculate_clearing_when_unbound(self, min_threshold, fn_result) ==
    IF ~self.enable_weights_quantization
    THEN [status |-> "AssertionError", self |-> self, call |-> NoCall]
    ELSE IF self.weights_quantization_params_fn # None
    THEN IF ChannelAxisArg(self).status # "ok"
         THEN [status |-> ChannelAxisArg(self).status, self |-> self, call |-> NoCall]
         ELSE [status |-> set_weights_quantization_param(self, fn_result).status,
               self |-> set_weights_quantization_param(self, fn_result).self,
               call |-> ParamsFnCall(self, min_threshold, fn_result)]
    ELSE [status |-> "ok",
          self |-> [self EXCEPT !.weights_quantization_params = EmptyDict],
          call |-> NoCall]

\* calculate_and_set_weights_params(tensor_data, min_threshold); fn_result is
\* the dict the bound params function returns when it is called.
calculate_and_set_weights_params(self, min_threshold, fn_result) ==
    IF ~self.enable_weights_quantization
    THEN [status |-> "AssertionError", self |-> self, call |-> NoCall]
    ELSE IF self.weights_quantization_params_fn # None
    THEN IF ChannelAxisArg(self).status # "ok"
         THEN [status |-> ChannelAxisArg(self).status, self |-> self, call |-> NoCall]
         ELSE [status |-> set_weights_quantization_param(self, fn_result).status,
               self |-> set_weights_quantization_param(self, fn_result).self,
               call |-> ParamsFnCall(self, min_threshold, fn_result)]
    ELSE [status |-> set_weights_quantization_param(self, EmptyDict).status,
          self |-> set_weights_quantization_param(self, EmptyDict).self,
          call |-> NoCall]

has_weights_quantization_params(self) ==
    Cardinality(DOMAIN self.weights_quantization_params) > 0

\* WeightsAttrQuantizationConfig.__eq__ (other is an instance of the class)
WeightsAttrQuantizationConfig_eq(self, other) ==
    /\ self.weights_quantization_fn = other.weights_quantization_fn
    /\ self.weights_quantization_params_fn = other.weights_quantization_params_fn
    /\ self.weights_channels_axis = other.weights_channels_axis
    /\ self.weights_error_method = other.weights_error_method
    /\ self.weights_quantization_method = other.weights_quantization_method
    /\ self.weights_n_bits = other.weights_n_bits
    /\ self.weights_per_channel_threshold = other.weights_per_channel_threshold
    /\ self.enable_weights_quantization = other.enable_weights_quantization
    /\ self.l_p_value = other.l_p_value

\* WeightsAttrQuantizationConfig.__hash__: hash of this tuple
WeightsAttrQuantizationConfig_hash(self) ==
    <<self.weights_quantization_fn, self.weights_quantization_params_fn,
      self.weights_channels_axis, self.weights_error_method,
      self.weights_quantization_method, self.weights_n_bits,
      self.weights_per_channel_threshold, self.enable_weights_quantization,
      self.l_p_value>>

---------------------------------------------------------------------------
(* class BaseNodeQuantizationConfig / NodeActivationQuantizationConfig     *)

\* Bug variant: the setter stores the value and leaves the bound function.
activation_error_method_setter_no_rebind(self, value) ==
    [self EXCEPT !.activation_error_method = value]

\* @activation_error_method.setter
activation_error_method_setter(self, value) ==
    [self EXCEPT
        !.activation_error_method = value,
        !.activation_quantization_params_fn =
            get_activation_quantization_params_fn(self.activation_quantization_method)]

\* __init__(qc, op_cfg, activation_quantization_fn, activation_quantization_params_fn):
\* lines 93-96 store the passed functions and the method, line 97 runs the
\* error-method setter, lines 98-108 copy the remaining fields.
NodeActivationQuantizationConfig(qc, op_cfg, activation_quantization_fn, activation_quantization_params_fn) ==
    LET s1 == [activation_quantization_fn |-> activation_quantization_fn,
               activation_quantization_params_fn |-> activation_quantization_params_fn,
               activation_quantization_params |-> EmptyDict,
               activation_quantization_method |-> op_cfg.activation_quantization_method,
               activation_error_method |-> "unset",
               activation_n_bits |-> op_cfg.activation_n_bits,
               relu_bound_to_power_of_2 |-> qc.relu_bound_to_power_of_2,
               enable_activation_quantization |-> op_cfg.enable_activation_quantization,
               activation_channel_equalization |-> qc.activation_channel_equalization,
               input_scaling |-> qc.input_scaling,
               min_threshold |-> qc.min_threshold,
               l_p_value |-> qc.l_p_value,
               shift_negative_activation_correction |-> qc.shift_negative_activation_correction,
               z_threshold |-> qc.z_threshold,
               shift_negative_ratio |-> qc.shift_negative_ratio,
               shift_negative_threshold_recalculation |->
                   qc.shift_negative_threshold_recalculation]
    IN  activation_error_method_setter(s1, qc.activation_error_method)

set_activation_quantization_fn(self, fn) ==
    [self EXCEPT !.activation_quantization_fn = fn]

set_activation_quantization_params_fn(self, fn) ==
    [self EXCEPT !.activation_quantization_params_fn = fn]

\* Bug variant: the stored dict is replaced by the new one, not updated.
set_activation_quantization_param_replacing(self, activation_params) ==
    IF ~self.enable_activation_quantization
    THEN [status |-> "AssertionError", self |-> self]
    ELSE [status |-> "ok",
          self |-> [self EXCEPT !.activation_quantization_params = activation_params]]

\* set_activation_quantization_param(activation_params)
set_activation_quantization_param(self, activation_params) ==
    IF ~self.enable_activation_quantization
    THEN [status |-> "AssertionError", self |-> self]
    ELSE [status |-> "ok",
          self |-> [self EXCEPT !.activation_quantization_params =
                                    DictUpdate(@, activation_params)]]

has_activation_quantization_params(self) ==
    Cardinality(DOMAIN self.activation_quantization_params) > 0

no_quantization(self) == ~has_activation_quantization_params(self)

\* Bug variant: the last field is left out of the comparison.
NodeActivationQuantizationConfig_eq_without_last(self, other) ==
    /\ self.activation_quantization_fn = other.activation_quantization_fn
    /\ self.activation_quantization_params_fn = other.activation_quantization_params_fn
    /\ self.activation_error_method = other.activation_error_method
    /\ self.activation_quantization_method = other.activation_quantization_method
    /\ self.activation_n_bits = other.activation_n_bits
    /\ self.enable_activation_quantization = other.enable_activation_quantization
    /\ self.activation_channel_equalization = other.activation_channel_equalization
    /\ self.input_scaling = other.input_scaling
    /\ self.min_threshold = other.min_threshold
    /\ self.l_p_value = other.l_p_value
    /\ self.shift_negative_activation_correction = other.shift_negative_activation_correction
    /\ self.z_threshold = other.z_threshold
    /\ self.shift_negative_ratio = other.shift_negative_ratio

\* NodeActivationQuantizationConfig.__eq__ (other is an instance of the class)
NodeActivationQuantizationConfig_eq(self, other) ==
    /\ self.activation_quantization_fn = other.activation_quantization_fn
    /\ self.activation_quantization_params_fn = other.activation_quantization_params_fn
    /\ self.activation_error_method = other.activation_error_method
    /\ self.activation_quantization_method = other.activation_quantization_method
    /\ self.activation_n_bits = other.activation_n_bits
    /\ self.enable_activation_quantization = other.enable_activation_quantization
    /\ self.activation_channel_equalization = other.activation_channel_equalization
    /\ self.input_scaling = other.input_scaling
    /\ self.min_threshold = other.min_threshold
    /\ self.l_p_value = other.l_p_value
    /\ self.shift_negative_activation_correction = other.shift_negative_activation_correction
    /\ self.z_threshold = other.z_threshold
    /\ self.shift_negative_ratio = other.shift_negative_ratio
    /\ self.shift_negative_threshold_recalculation =
           other.shift_negative_threshold_recalculation

\* NodeActivationQuantizationConfig.__hash__: hash of this tuple
NodeActivationQuantizationConfig_hash(self) ==
    <<self.activation_quantization_fn, self.activation_quantization_params_fn,
      self.activation_error_method, self.activation_quantization_method,
      self.activation_n_bits, self.enable_activation_quantization,
      self.activation_channel_equalization, self.input_scaling,
      self.min_threshold, self.l_p_value,
      self.shift_negative_activation_correction, self.z_threshold,
      self.shift_negative_ratio, self.shift_negative_threshold_recalculation>>

\* The attributes an instance has through its class: the methods and
\* properties of the class bodies (set_quant_config_attr is inherited from
\* BaseNodeQuantizationConfig), and what every instance inherits from object.
ActivationClassNames ==
    {"set_quant_config_attr", "quantize_node_output", "activation_error_method",
     "set_activation_quantization_fn", "set_activation_quantization_params_fn",
     "set_activation_quantization_param", "has_activation_quantization_params",
     "no_quantization"}

WeightsAttrClassNames ==
    {"weights_error_method", "set_weights_quantization_fn",
     "set_weights_quantization_params_fn", "set_weights_quantization_param",
     "calculate_and_set_weights_params", "has_weights_quantization_params"}

NodeWeightsClassNames ==
    {"set_quant_config_attr", "get_attr_config", "set_attr_config", "has_attribute_config",
     "_extract_config_for_attributes_with_name"}

ObjectNames ==
    {"__class__", "__delattr__", "__dict__", "__dir__", "__doc__", "__eq__", "__format__",
     "__ge__", "__getattribute__", "__getstate__", "__gt__", "__hash__", "__init__",
     "__init_subclass__", "__le__", "__lt__", "__module__", "__ne__", "__new__",
     "__reduce__", "__reduce_ex__", "__repr__", "__setattr__", "__sizeof__", "__str__",
     "__subclasshook__", "__weakref__"}

\* type(self), told by a field only that class's __init__ assigns
ClassOf(self) ==
    IF "attributes_config_mapping" \in DOMAIN self THEN "NodeWeightsQuantizationConfig"
    ELSE IF "activation_n_bits" \in DOMAIN self THEN "NodeActivationQuantizationConfig"
    ELSE "WeightsAttrQuantizationConfig"

ClassNames(self) ==
    CASE ClassOf(self) = "NodeWeightsQuantizationConfig" -> NodeWeightsClassNames
      [] ClassOf(self) = "NodeActivationQuantizationConfig" -> ActivationClassNames
      [] OTHER -> WeightsAttrClassNames

\* The keys of self.__dict__.  The record field holding the error method
\* stands for the property's backing attribute (_activation_error_method,
\* _weights_error_method); status is the constructor's outcome, which is no
\* attribute of the object.
InstanceNames(self) ==
    {IF f = "activation_error_method" /\ ClassOf(self) = "NodeActivationQuantizationConfig"
     THEN "_activation_error_method"
     ELSE IF f = "weights_error_method" /\ ClassOf(self) = "WeightsAttrQuantizationConfig"
     THEN "_weights_error_method"
     ELSE f : f \in DOMAIN self \ {"status"}}

\* hasattr(self, name): getattr finds the name in the instance's __dict__,
\* in its class or in object.
HasAttr(self, name) ==
    name \in InstanceNames(self) \cup ClassNames(self) \cup ObjectNames

\* What setattr(self, name, value) raises for a value that is neither a class
\* nor a dict: __class__ and __dict__ refuse it with TypeError, __weakref__
\* is not writable whatever the value.  (A dict is accepted for __dict__ and
\* then replaces every attribute of the instance, a class of the same layout
\* is accepted for __class__; the setters are called with neither here: a
\* dict is passed for a params field only.)
SetattrStatus(name) ==
    IF name \in {"__class__", "__dict__"} THEN "TypeError"
    ELSE IF name = "__weakref__" THEN "AttributeError"
    ELSE "ok"

\* setattr(self, name, value) on a NodeActivationQuantizationConfig: the
\* error-method property runs its setter, its backing attribute is a plain
\* attribute, and any other name is stored in the instance's __dict__, where
\* it hides a method of the same name.
ActivationSetattr(self, name, value) ==
    IF SetattrStatus(name) # "ok" THEN self
    ELSE IF name = "activation_error_method"
    THEN activation_error_method_setter(self, value)
    ELSE IF name = "_activation_error_method"
    THEN [self EXCEPT !.activation_error_method = value]
    ELSE DictSet(self, name, value)

\* setattr(self, name, value) on a WeightsAttrQuantizationConfig
WeightsAttrSetattr(self, name, value) ==
    IF SetattrStatus(name) # "ok" THEN self
    ELSE IF name = "weights_error_method"
    THEN weights_error_method_setter(self, value)
    ELSE IF name = "_weights_error_method"
    THEN [self EXCEPT !.weights_error_method = value]
    ELSE DictSet(self, name, value)

\* setattr(self, name, value) on an object of any of the config classes; the
\* node weights config has no property.
Setattr(self, name, value) ==
    CASE ClassOf(self) = "NodeActivationQuantizationConfig" ->
             ActivationSetattr(self, name, value)
      [] ClassOf(self) = "WeightsAttrQuantizationConfig" ->
             WeightsAttrSetattr(self, name, value)
      [] OTHER -> IF SetattrStatus(name) # "ok" THEN self ELSE DictSet(self, name, value)

\* self.method(...): the lookup finds an attribute stored on the instance
\* before the class's method, and calling the stored value raises TypeError.
Hidden(self, methods) == methods \cap DOMAIN self # {}

\* Bug variant: setattr runs whether or not the attribute exists, so an
\* unknown name adds a field.
base_set_quant_config_attr_without_hasattr(self, name, value) ==
    [status |-> SetattrStatus(name), warned |-> FALSE, warnings |-> 0,
     self |-> Setattr(self, name, value)]

\* BaseNodeQuantizationConfig.set_quant_config_attr(config_parameter_name,
\* config_parameter_value): setattr when hasattr finds the name, else a warning.
\* warned: the call reached its own Logger.warning; warnings: how many times
\* Logger.warning was called before the call returned or raised.
base_set_quant_config_attr(self, name, value) ==
    IF HasAttr(self, name)
    THEN [status |-> SetattrStatus(name), warned |-> FALSE, warnings |-> 0,
          self |-> Setattr(self, name, value)]
    ELSE [status |-> IF Logger_warning = "continue" THEN "ok" ELSE "Exception",
          warned |-> TRUE, warnings |-> 1, self |-> self]

\* The activation_quantization_fn of a config is a factory: called with
\* (activation_n_bits, activation_quantization_params) it returns the
\* fake-quantization callable, or None.  The callable applied to tensors
\* returns the quantized tensors, which depend on all three.
FakeQuantFrom(fn, n_bits, params) ==
    IF fn = <<"user_fn", "none">> THEN None
    ELSE Some([n_bits |-> n_bits, params |-> params])

NoOutput == [n_bits |-> 0, params |-> EmptyDict, tensors |-> ""]

\* Bug variant: the callable is built from an empty parameter dict.
quantize_node_output_without_params(self, tensors) ==
    IF self.activation_quantization_fn = None
    THEN [status |-> "TypeError", output |-> NoOutput]
    ELSE IF FakeQuantFrom(self.activation_quantization_fn, self.activation_n_bits,
                          EmptyDict) = None
    THEN [status |-> IF Logger_critical = "raise" THEN "Exception" ELSE "TypeError",
          output |-> NoOutput]
    ELSE [status |-> "ok",
          output |-> [n_bits |-> self.activation_n_bits, params |-> EmptyDict,
                      tensors |-> tensors]]

\* quantize_node_output(tensors): calling a None factory raises TypeError; a
\* None fake_quant reaches Logger.critical, and calling it would raise
\* TypeError at line 128 if Logger.critical returned.
quantize_node_output(self, tensors) ==
    IF self.activation_quantization_fn = None
    THEN [status |-> "TypeError", output |-> NoOutput]
    ELSE LET fake_quant == FakeQuantFrom(self.activation_quantization_fn,
                                         self.activation_n_bits,
                                         self.activation_quantization_params)
         IN  IF fake_quant = None
             THEN [status |-> IF Logger_critical = "raise" THEN "Exception" ELSE "TypeError",
                   output |-> NoOutput]
             ELSE [status |-> "ok",
                   output |-> [n_bits |-> fake_quant[1].n_bits,
                               params |-> fake_quant[1].params,
                               tensors |-> tensors]]

---------------------------------------------------------------------------
(* class NodeWeightsQuantizationConfig                                     *)

\* An attribute of node_attrs_list, or the attr_name argument of a lookup:
\* an int (positional), a str (named, the tuple of its characters) or None.
IntAttr(i) == [kind |-> "int", pos |-> i, name |-> <<>>]
StrAttr(n) == [kind |-> "str", pos |-> 0, name |-> n]
NoneAttr == [kind |-> "None", pos |-> 0, name |-> <<>>]

\* isinstance(attr, int)
IsInt(attr) == attr.kind = "int"

\* Bug variant: the enable flag of the default config is never looked at.
PositionalAttrNeverRefused(op_cfg) == FALSE

\* Line 415: a positional attribute is refused when the operator's default
\* attribute config has quantization enabled.
PositionalAttrRefused(op_cfg) ==
    op_cfg.default_weight_attr_config.enable_weights_quantization

\* Line 423: {k: v for k, v in op_cfg.attr_weights_configs_mapping.items() if k in attr}
\* The capability mapping is a dict kept in insertion order: a sequence of
\* <<key, config>> pairs with distinct keys.
AttrsIncludedInName(op_cfg, attr) ==
    SelectSeq(op_cfg.attr_weights_configs_mapping,
              LAMBDA kv : IsSubstring(kv[1], attr.name))

\* Bug variant: off by one, two matching keys pass as unambiguous.
AmbiguousAttrNameOffByOne(attrs_included_in_name) == Len(attrs_included_in_name) > 2

\* Line 424: the ambiguity test that leads to Logger.error
AmbiguousAttrName(attrs_included_in_name) == Len(attrs_included_in_name) > 1

\* Bug variant: the matched key's config is dropped for the default one.
SelectAttrCfgAlwaysDefault(op_cfg, attrs_included_in_name) ==
    op_cfg.default_weight_attr_config

\* Lines 429-432: default config on no match, else the first matching value
SelectAttrCfg(op_cfg, attrs_included_in_name) ==
    IF Len(attrs_included_in_name) = 0
    THEN op_cfg.default_weight_attr_config
    ELSE attrs_included_in_name[1][2]

\* Lines 411-436: one iteration of the constructor's loop over node_attrs_list.
\* self.status becomes "Exception" when a Logger call raises; later
\* iterations then never run.
InitAttr(self, qc, op_cfg, weights_channels_axis, attr) ==
    IF self.status # "ok" THEN self
    ELSE IF IsInt(attr)
    THEN IF PositionalAttrRefused(op_cfg) /\ Logger_critical = "raise"
         THEN [self EXCEPT !.status = "Exception"]
         ELSE [self EXCEPT !.pos_attributes_config_mapping =
                  DictSet(@, attr.pos,
                          WeightsAttrQuantizationConfig(qc, op_cfg.default_weight_attr_config,
                                                        weights_channels_axis))]
    ELSE LET attrs_included_in_name == AttrsIncludedInName(op_cfg, attr)
         IN  IF AmbiguousAttrName(attrs_included_in_name) /\ Logger_error = "raise"
             THEN [self EXCEPT !.status = "Exception"]
             ELSE [self EXCEPT !.attributes_config_mapping =
                      DictSet(@, attr.name,
                              WeightsAttrQuantizationConfig(
                                  qc, SelectAttrCfg(op_cfg, attrs_included_in_name),
                                  weights_channels_axis))]

RECURSIVE InitAttrs(_, _, _, _, _)
InitAttrs(self, qc, op_cfg, weights_channels_axis, node_attrs_list) ==
    IF node_attrs_list = <<>> THEN self
    ELSE InitAttrs(InitAttr(self, qc, op_cfg, weights_channels_axis, Head(node_attrs_list)),
                   qc, op_cfg, weights_channels_axis, Tail(node_attrs_list))

\* __init__(qc, op_cfg, weights_channels_axis, node_attrs_list).  status is
\* "ok" when the constructor returned and "Exception" when it raised, in
\* which case the caller receives no object.
NodeWeightsQuantizationConfig(qc, op_cfg, weights_channels_axis, node_attrs_list) ==
    InitAttrs([status |-> "ok",
               min_threshold |-> qc.min_threshold,
               simd_size |-> op_cfg.simd_size,
               weights_second_moment_correction |-> qc.weights_second_moment_correction,
               weights_bias_correction |-> qc.weights_bias_correction,
               attributes_config_mapping |-> EmptyDict,
               pos_attributes_config_mapping |-> EmptyDict],
              qc, op_cfg, weights_channels_axis, node_attrs_list)

\* Bug variant: containment tested the wrong way round (stored key in query).
extract_config_reversed_containment(self, attr_name) ==
    DictRestrict(self.attributes_config_mapping,
                 {k \in DOMAIN self.attributes_config_mapping :
                     IsSubstring(k, attr_name.name)})

\* _extract_config_for_attributes_with_name(attr_name)
extract_config_for_attributes_with_name(self, attr_name) ==
    DictRestrict(self.attributes_config_mapping,
                 {k \in DOMAIN self.attributes_config_mapping :
                     IsSubstring(attr_name.name, k)})

\* Lines 454-466 of get_attr_config: the config found, or None
FindAttrCfg(self, attr_name) ==
    IF IsInt(attr_name)
    THEN DictGet(self.pos_attributes_config_mapping, attr_name.pos)
    ELSE LET attrs_with_name == extract_config_for_attributes_with_name(self, attr_name)
         IN  IF Cardinality(DOMAIN attrs_with_name) = 1
             THEN Some(attrs_with_name[CHOOSE k \in DOMAIN attrs_with_name : TRUE])
             ELSE IF Cardinality(DOMAIN attrs_with_name) > 1
             THEN DictGet(self.attributes_config_mapping, attr_name.name)
             ELSE None

\* get_attr_config(attr_name): value is the returned config in a 1-tuple
get_attr_config(self, attr_name) ==
    IF attr_name = NoneAttr /\ Logger_error = "raise"
    THEN [status |-> "Exception", value |-> None]
    ELSE IF attr_name = NoneAttr
    THEN [status |-> "TypeError", value |-> None]
    ELSE IF FindAttrCfg(self, attr_name) = None /\ Logger_error = "raise"
    THEN [status |-> "Exception", value |-> None]
    ELSE [status |-> "ok", value |-> FindAttrCfg(self, attr_name)]

\* Bug variant: a key that is already stored keeps its config (setdefault).
set_attr_config_keeping_stored(self, attr_name, attr_qc) ==
    IF IsInt(attr_name)
    THEN IF attr_name.pos \in DOMAIN self.pos_attributes_config_mapping THEN self
         ELSE [self EXCEPT !.pos_attributes_config_mapping = DictSet(@, attr_name.pos, attr_qc)]
    ELSE IF attr_name.name \in DOMAIN self.attributes_config_mapping THEN self
         ELSE [self EXCEPT !.attributes_config_mapping = DictSet(@, attr_name.name, attr_qc)]

\* set_attr_config(attr_name, attr_qc)
set_attr_config(self, attr_name, attr_qc) ==
    IF IsInt(attr_name)
    THEN [self EXCEPT !.pos_attributes_config_mapping = DictSet(@, attr_name.pos, attr_qc)]
    ELSE [self EXCEPT !.attributes_config_mapping = DictSet(@, attr_name.name, attr_qc)]

\* The fields of the node config itself (lines 403-406).
NodeLevelFields ==
    {"min_threshold", "simd_size", "weights_second_moment_correction",
     "weights_bias_correction"}

\* Bug variant: the positional mapping is left out of the comparison.
NodeWeightsQuantizationConfig_eq_without_pos(self, other) ==
    /\ self.min_threshold = other.min_threshold
    /\ self.simd_size = other.simd_size
    /\ self.weights_second_moment_correction = other.weights_second_moment_correction
    /\ self.weights_bias_correction = other.weights_bias_correction
    /\ DOMAIN self.attributes_config_mapping = DOMAIN other.attributes_config_mapping
    /\ \A k \in DOMAIN self.attributes_config_mapping :
          WeightsAttrQuantizationConfig_eq(self.attributes_config_mapping[k],
                                           other.attributes_config_mapping[k])

\* NodeWeightsQuantizationConfig.__eq__ (other is an instance of the class);
\* the conjunction stops at the first false term, so the per-key
\* comparisons only run on equal key sets.
NodeWeightsQuantizationConfig_eq(self, other) ==
    /\ self.min_threshold = other.min_threshold
    /\ self.simd_size = other.simd_size
    /\ self.weights_second_moment_correction = other.weights_second_moment_correction
    /\ self.weights_bias_correction = other.weights_bias_correction
    /\ DOMAIN self.attributes_config_mapping = DOMAIN other.attributes_config_mapping
    /\ \A k \in DOMAIN self.attributes_config_mapping :
          WeightsAttrQuantizationConfig_eq(self.attributes_config_mapping[k],
                                           other.attributes_config_mapping[k])
    /\ DOMAIN self.pos_attributes_config_mapping = DOMAIN other.pos_attributes_config_mapping
    /\ \A k \in DOMAIN self.pos_attributes_config_mapping :
          WeightsAttrQuantizationConfig_eq(self.pos_attributes_config_mapping[k],
                                           other.pos_attributes_config_mapping[k])

\* NodeWeightsQuantizationConfig.__hash__: hash of this tuple; frozenset of
\* a dict is the set of its keys.
NodeWeightsQuantizationConfig_hash(self) ==
    <<self.min_threshold, self.simd_size, self.weights_second_moment_correction,
      self.weights_bias_correction, DOMAIN self.attributes_config_mapping,
      DOMAIN self.pos_attributes_config_mapping>>

\* What has_attribute_config returns: a bool, or (integer branch, line 498)
\* whatever pos_attributes_config_mapping.get(attr_name, False) yields, which
\* is the stored config object when there is one.
ReturnedBool(b) == [is_bool |-> TRUE, truth |-> b, object |-> None]
ReturnedObject(obj) == [is_bool |-> FALSE, truth |-> TRUE, object |-> Some(obj)]

\* Bug variant: a name counts as present only when exactly one key holds it.
has_attribute_config_single_match(self, attr_name) ==
    IF IsInt(attr_name)
    THEN IF attr_name.pos \in DOMAIN self.pos_attributes_config_mapping
         THEN ReturnedObject(self.pos_attributes_config_mapping[attr_name.pos])
         ELSE ReturnedBool(FALSE)
    ELSE ReturnedBool(
             Cardinality(DOMAIN extract_config_for_attributes_with_name(self, attr_name)) = 1)

\* has_attribute_config(attr_name)
has_attribute_config(self, attr_name) ==
    IF IsInt(attr_name)
    THEN IF attr_name.pos \in DOMAIN self.pos_attributes_config_mapping
         THEN ReturnedObject(self.pos_attributes_config_mapping[attr_name.pos])
         ELSE ReturnedBool(FALSE)
    ELSE ReturnedBool(
             Cardinality(DOMAIN extract_config_for_attributes_with_name(self, attr_name)) >= 1)

\* Lines 454-466 of get_attr_config: the key under which the returned config
\* is stored (the caller has checked that there is one).
FindAttrKey(self, attr_name) ==
    IF IsInt(attr_name)
    THEN attr_name
    ELSE LET attrs_with_name == extract_config_for_attributes_with_name(self, attr_name)
         IN  IF Cardinality(DOMAIN attrs_with_name) = 1
             THEN StrAttr(CHOOSE k \in DOMAIN attrs_with_name : TRUE)
             ELSE attr_name

\* The identity of the object stored under a key, and the keys that hold a
\* given object.  A dict stores references: one config object may be stored
\* under several keys.
IdOf(ids, key) == IF IsInt(key) THEN ids.pos[key.pos] ELSE ids.named[key.name]

\* Bug variant: the setter writes the field on every stored named config.
SetattrOnEveryNamedConfig(self, ids, id, name, value) ==
    [self EXCEPT
        !.attributes_config_mapping =
            [k \in DOMAIN @ |-> WeightsAttrSetattr(@[k], name, value)],
        !.pos_attributes_config_mapping =
            [k \in DOMAIN @ |->
                IF ids.pos[k] = id THEN WeightsAttrSetattr(@[k], name, value) ELSE @[k]]]

\* Line 547: setattr(attr_cfg, name, value) mutates the one object attr_cfg
\* refers to, which every key holding that object then shows.
SetattrOnObject(self, ids, id, name, value) ==
    [self EXCEPT
        !.attributes_config_mapping =
            [k \in DOMAIN @ |->
                IF ids.named[k] = id THEN WeightsAttrSetattr(@[k], name, value) ELSE @[k]],
        !.pos_attributes_config_mapping =
            [k \in DOMAIN @ |->
                IF ids.pos[k] = id THEN WeightsAttrSetattr(@[k], name, value) ELSE @[k]]]

\* Logger.warning calls of has_attribute_config: for a name that is no int
\* it calls _extract_config_for_attributes_with_name, which warns once
\* (lines 519-521) when more than one stored key holds the name.
ExtractWarnings(self, attr_name) ==
    IF IsInt(attr_name) \/ attr_name = NoneAttr
    THEN 0
    ELSE IF Cardinality(DOMAIN extract_config_for_attributes_with_name(self, attr_name)) > 1
    THEN 1 ELSE 0

\* Logger.warning calls of get_attr_config: for a name that is no int, the
\* one of the extraction and, on more than one match, the one of line 463.
\* A None name raises before either.
GetAttrConfigWarnings(self, attr_name) == 2 * ExtractWarnings(self, attr_name)

\* The method that has_attribute_config and get_attr_config look up on self
\* for a name that is no int (lines 500 and 458).
ExtractMethods(attr_name) ==
    IF IsInt(attr_name) THEN {} ELSE {"_extract_config_for_attributes_with_name"}

\* NodeWeightsQuantizationConfig.set_quant_config_attr(config_parameter_name,
\* config_parameter_value, attr_name).  Line 544 looks up has_attribute_config
\* (and, inside it, the extraction); get_attr_config is looked up at line 545
\* only when has_attribute_config returned something truthy.
set_quant_config_attr(self, ids, name, value, attr_name) ==
    IF attr_name = NoneAttr
    THEN base_set_quant_config_attr(self, name, value)
    ELSE IF Hidden(self, {"has_attribute_config"} \cup ExtractMethods(attr_name))
    THEN [status |-> "TypeError", warned |-> FALSE, warnings |-> 0, self |-> self]
    ELSE IF has_attribute_config(self, attr_name).truth
    THEN IF Hidden(self, {"get_attr_config"})
         THEN [status |-> "TypeError", warned |-> FALSE,
               warnings |-> ExtractWarnings(self, attr_name), self |-> self]
         ELSE IF get_attr_config(self, attr_name).status # "ok"
         THEN [status |-> get_attr_config(self, attr_name).status, warned |-> FALSE,
               warnings |-> ExtractWarnings(self, attr_name)
                                + GetAttrConfigWarnings(self, attr_name),
               self |-> self]
         ELSE IF HasAttr(get_attr_config(self, attr_name).value[1], name)
         THEN [status |-> SetattrStatus(name), warned |-> FALSE,
               warnings |-> ExtractWarnings(self, attr_name)
                                + GetAttrConfigWarnings(self, attr_name),
               self |-> SetattrOnObject(self, ids, IdOf(ids, FindAttrKey(self, attr_name)),
                                        name, value)]
         ELSE [status |-> IF Logger_warning = "continue" THEN "ok" ELSE "Exception",
               warned |-> TRUE,
               warnings |-> ExtractWarnings(self, attr_name)
                                + GetAttrConfigWarnings(self, attr_name) + 1,
               self |-> self]
    ELSE [status |-> IF Logger_error = "raise" THEN "Exception" ELSE "ok",
          warned |-> FALSE, warnings |-> ExtractWarnings(self, attr_name),
          self |-> self]

---------------------------------------------------------------------------
(* class threshold_updater (concat_threshold_update.py)                    *)

\* Graph.get_prev_nodes / Graph.get_next_nodes over the edge set.
get_prev_nodes(edges, node) == {m \in 1..NumNodes : <<m, node>> \in edges}
get_next_nodes(edges, node) == {m \in 1..NumNodes : <<node, m>> \in edges}

\* A node's activation_quantization_params holds each value in a 1-tuple, so
\* that a stored None is a value too; params.get(name) is None when absent.
ParamsGet(params, name) == IF name \in DOMAIN params THEN params[name] ELSE None

\* Bug variant: the fan-out test is inverted.
SingleConsumerInverted(edges, prev_node) ==
    Cardinality(get_next_nodes(edges, prev_node)) > 1

\* Line 56: len(graph.get_next_nodes(prev_node))==1
SingleConsumer(edges, prev_node) ==
    Cardinality(get_next_nodes(edges, prev_node)) = 1

\* Line 53: the matched node's threshold, read once before the loop
ConcatThreshold(params, node) == ParamsGet(params[node], THRESHOLD)

\* Bug variant: the predecessor's dict is replaced by one holding only the
\* threshold, so its other parameters are lost.
substitute_replacing_params(edges, params, node) ==
    [n \in DOMAIN params |->
        IF n \in get_prev_nodes(edges, node) /\ SingleConsumer(edges, n)
        THEN DictSet(EmptyDict, THRESHOLD, ConcatThreshold(params, node))
        ELSE params[n]]

\* substitute(graph, node): the nodes' parameter dicts after the loop of
\* lines 55-57.  The writes go to distinct predecessors, none of them the
\* matched node, so the order of the loop does not show.
substitute(edges, params, node) ==
    [n \in DOMAIN params |->
        IF n \in get_prev_nodes(edges, node) /\ SingleConsumer(edges, n)
        THEN DictSet(params[n], THRESHOLD, ConcatThreshold(params, node))
        ELSE params[n]]

---------------------------------------------------------------------------
(* Inputs of the NodeWeightsQuantizationConfig operations.                 *)

SeqsUpTo(S, n) == UNION {[1..m -> S] : m \in 0..n}

\* Attribute names of a node, keys of the capability mapping, positions.
AttrNames == {<<"k">>, <<"k", "b">>, <<"x", "k">>, <<"x">>}
OpKeys == {<<"k">>, <<"b">>, <<"k", "b">>}
Positions == {0, 1}

NodeAttrs == {StrAttr(n) : n \in AttrNames} \cup {IntAttr(i) : i \in Positions}
CtorNodeAttrs == {StrAttr(n) : n \in AttrNames} \cup {IntAttr(0)}
LookupAttrs == NodeAttrs \cup {StrAttr(<<"b">>), NoneAttr}

\* attr_weights_configs_mapping: insertion-ordered, keys distinct
AttrWeightsConfigsMappings ==
    {m \in SeqsUpTo(OpKeys \X AttributeQuantizationConfigs, MaxKeys) :
        \A i, j \in 1..Len(m) : i # j => m[i][1] # m[j][1]}

OpQuantizationConfigs ==
    [default_weight_attr_config : AttributeQuantizationConfigs,
     attr_weights_configs_mapping : AttrWeightsConfigsMappings,
     simd_size : {32}]

\* A capability config with one key per conceptual attribute.
OpCfgKernelBias ==
    [default_weight_attr_config |-> CfgOff,
     attr_weights_configs_mapping |-> << <<(<<"k">>), CfgKernel>>, <<(<<"b">>), CfgBias>> >>,
     simd_size |-> 32]

CtorInputs ==
    [qc : WeightsQcs, op_cfg : OpQuantizationConfigs,
     weights_channels_axis : {<<1, 0>>},
     node_attrs_list : SeqsUpTo(CtorNodeAttrs, MaxAttrs)]

LookupCtorInputs ==
    [qc : {q \in WeightsQcs : q.weights_error_method = "MSE"},
     op_cfg : {OpCfgKernelBias},
     weights_channels_axis : {<<1, 0>>},
     node_attrs_list : SeqsUpTo(NodeAttrs, MaxAttrs)]

\* What the caller holds after calling the constructor: the object, or
\* nothing when the constructor raised.
NoObject ==
    [status |-> "Exception", min_threshold |-> 0, simd_size |-> 0,
     weights_second_moment_correction |-> FALSE, weights_bias_correction |-> FALSE,
     attributes_config_mapping |-> EmptyDict, pos_attributes_config_mapping |-> EmptyDict]

Constructed(in) ==
    LET r == NodeWeightsQuantizationConfig(in.qc, in.op_cfg, in.weights_channels_axis,
                                           in.node_attrs_list)
    IN  IF r.status = "ok" THEN r ELSE NoObject

\* The constructor creates one new config object per entry of
\* node_attrs_list; a key listed twice keeps the object of its last entry.
LastEntry(node_attrs_list, attr) ==
    CHOOSE i \in 1..Len(node_attrs_list) :
        /\ node_attrs_list[i] = attr
        /\ \A j \in (i + 1)..Len(node_attrs_list) : node_attrs_list[j] # attr

NoIds == [named |-> EmptyDict, pos |-> EmptyDict]

ConstructedIds(in) ==
    IF Constructed(in).status # "ok" THEN NoIds
    ELSE [named |-> [k \in DOMAIN Constructed(in).attributes_config_mapping |->
                        LastEntry(in.node_attrs_list, StrAttr(k))],
          pos |-> [k \in DOMAIN Constructed(in).pos_attributes_config_mapping |->
                      LastEntry(in.node_attrs_list, IntAttr(k))]]

\* An identity no stored object has: that of a newly created object.
RECURSIVE FreshIdFrom(_, _)
FreshIdFrom(ids, i) ==
    IF \/ \E k \in DOMAIN ids.named : ids.named[k] = i
       \/ \E k \in DOMAIN ids.pos : ids.pos[k] = i
    THEN FreshIdFrom(ids, i + 1)
    ELSE i

FreshId(ids) == FreshIdFrom(ids, 1)

\* The identities after mapping[attr_name] = <object id>
IdsSet(ids, attr_name, id) ==
    IF IsInt(attr_name)
    THEN [ids EXCEPT !.pos = DictSet(@, attr_name.pos, id)]
    ELSE [ids EXCEPT !.named = DictSet(@, attr_name.name, id)]

---------------------------------------------------------------------------
(* Idle values of the variables a specification does not use.              *)

NwIdle ==
    /\ nw = NoObject
    /\ nw_in = [qc |-> CHOOSE q \in WeightsQcs : TRUE, op_cfg |-> OpCfgKernelBias,
                weights_channels_axis |-> <<1, 0>>, node_attrs_list |-> <<>>]
    /\ nw_res = [op |-> "idle", status |-> "ok", arg |-> NoneAttr, value |-> None]
    /\ nw_sets = 0
    /\ nw_ids = NoIds

WaIdle ==
    /\ wa = WeightsAttrQuantizationConfig(CHOOSE q \in WeightsQcs : TRUE, CfgOff, None)
    /\ wa_res = [op |-> "idle", arg |-> "", status |-> "ok", call |-> NoCall,
                 prev_fn |-> None]

ActIdle ==
    /\ act = NodeActivationQuantizationConfig(
                 CHOOSE q \in ActivationQcs : TRUE,
                 CHOOSE o \in ActivationOpCfgs : ~o.enable_activation_quantization,
                 None, None)
    /\ act_res = [op |-> "idle", arg |-> "", status |-> "ok", prev_fn |-> None]

GIdle ==
    /\ g_edges = {}
    /\ g_concat = {}
    /\ g_params = <<>>
    /\ g_res = [op |-> "idle", node |-> 0, concat_threshold |-> None, pre |-> <<>>]

NoHeap == [cfg |-> <<>>, obj |-> <<>>, dict |-> <<>>, calls |-> <<>>, handed |-> <<>>]

HeapIdle ==
    /\ heap = NoHeap
    /\ alone = <<>>

NoWrapper == [status |-> "idle"]

WrIdle ==
    /\ wrapper = NoWrapper
    /\ wr_res = [op |-> "idle", status |-> "ok"]

---------------------------------------------------------------------------
(* Specification of NodeWeightsQuantizationConfig construction and lookup. *)

NwConstruct(inputs) ==
    /\ nw_in \in inputs
    /\ nw = Constructed(nw_in)
    /\ nw_res = [op |-> "__init__", status |-> nw.status, arg |-> NoneAttr, value |-> None]
    /\ nw_sets = 0
    /\ nw_ids = ConstructedIds(nw_in)

GetAttrConfig(attr_name) ==
    /\ nw.status = "ok"
    /\ nw_res' = [op |-> "get_attr_config",
                  status |-> get_attr_config(nw, attr_name).status,
                  arg |-> attr_name,
                  value |-> get_attr_config(nw, attr_name).value,
                  warnings |-> GetAttrConfigWarnings(nw, attr_name)]
    /\ UNCHANGED <<nw, nw_in, nw_sets, nw_ids>>
    /\ UNCHANGED <<wa_vars, act_vars, g_vars, heap_vars, wr_vars>>

SetAttrConfig(attr_name, attr_qc) ==
    /\ nw.status = "ok"
    /\ nw_sets < MaxSets
    /\ nw' = set_attr_config(nw, attr_name, attr_qc)
    /\ nw_res' = [op |-> "set_attr_config", status |-> "ok", arg |-> attr_name,
                  value |-> Some(attr_qc)]
    /\ nw_sets' = nw_sets + 1
    /\ nw_ids' = IdsSet(nw_ids, attr_name, FreshId(nw_ids))
    /\ UNCHANGED nw_in
    /\ UNCHANGED <<wa_vars, act_vars, g_vars, heap_vars, wr_vars>>

\* The attribute configs a caller can pass to set_attr_config.
AttrQcs ==
    {WeightsAttrQuantizationConfig(nw_in.qc, c, nw_in.weights_channels_axis) :
        c \in AttributeQuantizationConfigs}

InitCtor == NwConstruct(CtorInputs) /\ WaIdle /\ ActIdle /\ GIdle /\ HeapIdle /\ WrIdle

\* After construction the caller looks up the attributes it declared.
NextCtor ==
    \E i \in 1..Len(nw_in.node_attrs_list) : GetAttrConfig(nw_in.node_attrs_list[i])

SpecCtor == InitCtor /\ [][NextCtor]_vars

InitNW == NwConstruct(LookupCtorInputs) /\ WaIdle /\ ActIdle /\ GIdle /\ HeapIdle /\ WrIdle

NextNW ==
    \/ \E a \in LookupAttrs : GetAttrConfig(a)
    \/ \E a \in NodeAttrs, c \in AttrQcs : SetAttrConfig(a, c)

SpecNW == InitNW /\ [][NextNW]_vars

---------------------------------------------------------------------------
(* Specification of the setters and lookups of one                         *)
(* NodeWeightsQuantizationConfig (SpecSet).                                *)

\* Attribute names that contain one another, and one position.
SetAttrOrder == <<StrAttr(<<"k">>), StrAttr(<<"x", "k">>), StrAttr(<<"k", "x">>), IntAttr(0)>>
SetNodeAttrs == {SetAttrOrder[i] : i \in 1..Len(SetAttrOrder)}

\* The keys set_attr_config is called with, and the attr_name arguments of
\* the setter and the lookups: stored and absent names and positions.
SetKeys == {StrAttr(<<"k">>), IntAttr(0)}
SetLookupAttrs ==
    {StrAttr(<<"k">>), StrAttr(<<"x", "k">>), StrAttr(<<"b">>), IntAttr(0), IntAttr(1)}

\* The attribute lists a node is constructed with: each attribute at most
\* once, in the order of SetAttrOrder.
SetAttrLists ==
    {l \in SeqsUpTo(SetNodeAttrs, MaxAttrs) :
        \A i, j \in 1..Len(l) :
            i < j => \E r, t \in 1..Len(SetAttrOrder) :
                        r < t /\ SetAttrOrder[r] = l[i] /\ SetAttrOrder[t] = l[j]}

SetCtorInputs ==
    [qc : {q \in WeightsQcs : q.weights_error_method = "MSE"},
     op_cfg : {OpCfgKernelBias},
     weights_channels_axis : {<<1, 0>>},
     node_attrs_list : SetAttrLists]

\* config_parameter_name and the values passed for it: a field of the
\* attribute configs, a field of the node config, a method of the node
\* config, and a name neither has.
ConfigParameterNames == {"weights_n_bits", "min_threshold", "get_attr_config", "no_such_field"}

ConfigParameterValues(name) ==
    CASE name = "weights_n_bits" -> {4}
      [] name = "min_threshold" -> {2}
      [] name = "get_attr_config" -> {4}
      [] name = "no_such_field" -> {4}

\* set_attr_config with an object the caller got from get_attr_config(held):
\* the same object is then stored under attr_name as well.
SetAttrConfigStored(attr_name, held) ==
    /\ nw.status = "ok"
    /\ nw_sets < MaxSets
    /\ ~Hidden(nw, {"get_attr_config"} \cup ExtractMethods(held))
    /\ get_attr_config(nw, held).status = "ok"
    /\ nw' = set_attr_config(nw, attr_name, get_attr_config(nw, held).value[1])
    /\ nw_res' = [op |-> "set_attr_config", status |-> "ok", arg |-> attr_name,
                  value |-> get_attr_config(nw, held).value]
    /\ nw_sets' = nw_sets + 1
    /\ nw_ids' = IdsSet(nw_ids, attr_name, IdOf(nw_ids, FindAttrKey(nw, held)))
    /\ UNCHANGED nw_in
    /\ UNCHANGED <<wa_vars, act_vars, g_vars, heap_vars, wr_vars>>

SetQuantConfigAttr(name, value, attr_name) ==
    /\ nw.status = "ok"
    /\ \E r \in {set_quant_config_attr(nw, nw_ids, name, value, attr_name)} :
          /\ nw' = r.self
          /\ nw_res' = [op |-> "set_quant_config_attr", status |-> r.status,
                        arg |-> attr_name, value |-> None,
                        name |-> name, param |-> value, warned |-> r.warned,
                        warnings |-> r.warnings, pre |-> nw]
    /\ UNCHANGED <<nw_in, nw_sets, nw_ids>>
    /\ UNCHANGED <<wa_vars, act_vars, g_vars, heap_vars, wr_vars>>

HasAttributeConfig(attr_name) ==
    /\ nw.status = "ok"
    /\ nw_res' = [op |-> "has_attribute_config", status |-> "ok", arg |-> attr_name,
                  value |-> None, returned |-> has_attribute_config(nw, attr_name),
                  warnings |-> ExtractWarnings(nw, attr_name)]
    /\ UNCHANGED <<nw, nw_in, nw_sets, nw_ids>>
    /\ UNCHANGED <<wa_vars, act_vars, g_vars, heap_vars, wr_vars>>

InitSet == NwConstruct(SetCtorInputs) /\ WaIdle /\ ActIdle /\ GIdle /\ HeapIdle /\ WrIdle

NextSet ==
    \/ \E a \in SetKeys :
          SetAttrConfig(a, WeightsAttrQuantizationConfig(nw_in.qc, CfgBias,
                                                         nw_in.weights_channels_axis))
    \/ \E a \in SetKeys, held \in SetNodeAttrs : SetAttrConfigStored(a, held)
    \/ \E name \in ConfigParameterNames :
          \E value \in ConfigParameterValues(name), a \in SetLookupAttrs \cup {NoneAttr} :
              SetQuantConfigAttr(name, value, a)

SpecSet == InitSet /\ [][NextSet]_vars

\* Lookups between set_attr_config calls (SpecHas).
NextHas ==
    \/ \E a \in SetLookupAttrs : HasAttributeConfig(a)
    \/ \E a \in SetLookupAttrs : GetAttrConfig(a)
    \/ \E a \in SetNodeAttrs, c \in AttrQcs : SetAttrConfig(a, c)

SpecHas == InitSet /\ [][NextHas]_vars

---------------------------------------------------------------------------
(* Specification of one WeightsAttrQuantizationConfig (SpecWA).            *)

ParamDicts == UNION {[K -> 1..MaxParamValue] : K \in SUBSET ParamNames}

\* Fields assigned through setattr, with the values they take.
WeightsAttrFieldValues(name) ==
    CASE name = "weights_error_method" -> QuantizationErrorMethod
      [] name = "weights_quantization_method" -> QuantizationMethod
      [] name = "enable_weights_quantization" -> BOOLEAN

WeightsAttrFields ==
    {"weights_error_method", "weights_quantization_method", "enable_weights_quantization"}

WaConstruct(qcs, cfgs, axes) ==
    /\ wa \in {WeightsAttrQuantizationConfig(qc, cfg, axis) :
                  qc \in qcs, cfg \in cfgs, axis \in axes}
    /\ wa_res = [op |-> "__init__", arg |-> "", status |-> "ok", call |-> NoCall,
                 prev_fn |-> None]

WaSetattr(name, value) ==
    /\ wa' = WeightsAttrSetattr(wa, name, value)
    /\ wa_res' = [op |-> "setattr", arg |-> name, status |-> "ok", call |-> NoCall,
                  prev_fn |-> wa.weights_quantization_params_fn]
    /\ UNCHANGED <<nw_vars, act_vars, g_vars, heap_vars, wr_vars>>

WaSetWeightsQuantizationFn(fn) ==
    /\ wa' = set_weights_quantization_fn(wa, fn)
    /\ wa_res' = [op |-> "set_weights_quantization_fn", arg |-> "", status |-> "ok",
                  call |-> NoCall, prev_fn |-> wa.weights_quantization_params_fn]
    /\ UNCHANGED <<nw_vars, act_vars, g_vars, heap_vars, wr_vars>>

WaSetWeightsQuantizationParamsFn(fn) ==
    /\ wa' = set_weights_quantization_params_fn(wa, fn)
    /\ wa_res' = [op |-> "set_weights_quantization_params_fn", arg |-> "", status |-> "ok",
                  call |-> NoCall, prev_fn |-> wa.weights_quantization_params_fn]
    /\ UNCHANGED <<nw_vars, act_vars, g_vars, heap_vars, wr_vars>>

WaSetWeightsQuantizationParam(weights_params) ==
    /\ wa' = set_weights_quantization_param(wa, weights_params).self
    /\ wa_res' = [op |-> "set_weights_quantization_param", arg |-> "",
                  status |-> set_weights_quantization_param(wa, weights_params).status,
                  call |-> NoCall, prev_fn |-> wa.weights_quantization_params_fn]
    /\ UNCHANGED <<nw_vars, act_vars, g_vars, heap_vars, wr_vars>>

WaCalculateAndSetWeightsParams(min_threshold, fn_result) ==
    /\ wa' = calculate_and_set_weights_params(wa, min_threshold, fn_result).self
    /\ wa_res' = [op |-> "calculate_and_set_weights_params", arg |-> "",
                  status |-> calculate_and_set_weights_params(wa, min_threshold, fn_result).status,
                  call |-> calculate_and_set_weights_params(wa, min_threshold, fn_result).call,
                  prev_fn |-> wa.weights_quantization_params_fn]
    /\ UNCHANGED <<nw_vars, act_vars, g_vars, heap_vars, wr_vars>>

InitWA ==
    /\ WaConstruct(WeightsQcs, AttributeQuantizationConfigs, ChannelAxes)
    /\ NwIdle /\ ActIdle /\ GIdle /\ HeapIdle /\ WrIdle

NextWA ==
    \/ \E name \in WeightsAttrFields :
          \E value \in WeightsAttrFieldValues(name) : WaSetattr(name, value)
    \/ \E fn \in UserFns : WaSetWeightsQuantizationParamsFn(fn)
    \/ \E fn \in UserFns : WaSetWeightsQuantizationFn(fn)
    \/ \E d \in ParamDicts : WaSetWeightsQuantizationParam(d)
    \/ \E d \in ParamDicts : WaCalculateAndSetWeightsParams(1, d)

SpecWA == InitWA /\ [][NextWA]_vars

---------------------------------------------------------------------------
(* Specification of the params-function binding of both config classes     *)
(* (SpecBind).                                                             *)

ActivationFieldValues(name) ==
    CASE name = "activation_error_method" -> QuantizationErrorMethod
      [] name = "activation_quantization_method" -> QuantizationMethod

ActivationBindFields == {"activation_error_method", "activation_quantization_method"}
WeightsBindFields == {"weights_error_method", "weights_quantization_method"}

ActConstruct(qcs, op_cfgs, fns, params_fns) ==
    /\ \E qc \in qcs, op_cfg \in op_cfgs, fn \in fns, params_fn \in params_fns :
          /\ act = NodeActivationQuantizationConfig(qc, op_cfg, fn, params_fn)
          /\ act_res = [op |-> "__init__", arg |-> "", status |-> "ok",
                        prev_fn |-> params_fn]

ActSetattr(name, value) ==
    /\ act' = ActivationSetattr(act, name, value)
    /\ act_res' = [op |-> "setattr", arg |-> name, status |-> "ok",
                   prev_fn |-> act.activation_quantization_params_fn]
    /\ UNCHANGED <<nw_vars, wa_vars, g_vars, heap_vars, wr_vars>>

ActSetActivationQuantizationParamsFn(fn) ==
    /\ act' = set_activation_quantization_params_fn(act, fn)
    /\ act_res' = [op |-> "set_activation_quantization_params_fn", arg |-> "",
                   status |-> "ok", prev_fn |-> act.activation_quantization_params_fn]
    /\ UNCHANGED <<nw_vars, wa_vars, g_vars, heap_vars, wr_vars>>

InitBind ==
    /\ WaConstruct(WeightsQcs, {CfgKernel, CfgBias}, {<<1, 0>>})
    /\ ActConstruct(ActivationQcs,
                    {o \in ActivationOpCfgs : o.enable_activation_quantization},
                    {<<"user_fn", "q">>}, UserFns)
    /\ NwIdle /\ GIdle /\ HeapIdle /\ WrIdle

NextBind ==
    \/ \E name \in WeightsBindFields :
          \E value \in WeightsAttrFieldValues(name) : WaSetattr(name, value)
    \/ \E fn \in UserFns : WaSetWeightsQuantizationParamsFn(fn)
    \/ \E fn \in UserFns : WaSetWeightsQuantizationFn(fn)
    \/ \E name \in ActivationBindFields :
          \E value \in ActivationFieldValues(name) : ActSetattr(name, value)
    \/ \E fn \in UserFns : ActSetActivationQuantizationParamsFn(fn)

SpecBind == InitBind /\ [][NextBind]_vars

---------------------------------------------------------------------------
(* Specification of one NodeActivationQuantizationConfig, and of the       *)
(* generic setter on a NodeWeightsQuantizationConfig (SpecAct).  A         *)
(* behaviour works on one of the two objects.                              *)

\* Factories a caller can pass as activation_quantization_fn: one that
\* builds a callable, one that returns None, or None itself.
ActivationQuantizationFns == {<<"user_fn", "q">>, <<"user_fn", "none">>, None}

Tensors == {"t1", "t2"}

ActConfigParameterNames ==
    {"activation_error_method", "activation_quantization_method",
     "enable_activation_quantization", "activation_n_bits", "no_quantization",
     "__class__", "__dict__", "__weakref__", "no_such_field"}

ActConfigParameterValues(name) ==
    CASE name = "activation_error_method" -> QuantizationErrorMethod
      [] name = "activation_quantization_method" -> QuantizationMethod
      [] name = "enable_activation_quantization" -> BOOLEAN
      [] name = "activation_n_bits" -> {4}
      [] name = "no_quantization" -> {4}
      [] name = "__class__" -> {4}
      [] name = "__dict__" -> {4}
      [] name = "__weakref__" -> {4}
      [] name = "no_such_field" -> {4}

\* The dicts passed to set_activation_quantization_param: any threshold,
\* and a scale of 1 when there is one.
ActParamDicts == {d \in ParamDicts : "scale" \in DOMAIN d => d["scale"] = 1}

ActLive == act_res.op # "idle"

ActSetQuantConfigAttr(name, value) ==
    /\ ActLive
    /\ \E r \in {base_set_quant_config_attr(act, name, value)} :
          /\ act' = r.self
          /\ act_res' = [op |-> "set_quant_config_attr", arg |-> name, status |-> r.status,
                         prev_fn |-> act.activation_quantization_params_fn,
                         param |-> value, warned |-> r.warned,
                         warnings |-> r.warnings, pre |-> act]
    /\ UNCHANGED <<nw_vars, wa_vars, g_vars, heap_vars, wr_vars>>

ActSetParamsFn(fn) ==
    /\ ActLive
    /\ ActSetActivationQuantizationParamsFn(fn)

ActSetActivationQuantizationFn(fn) ==
    /\ ActLive
    /\ act' = set_activation_quantization_fn(act, fn)
    /\ act_res' = [op |-> "set_activation_quantization_fn", arg |-> "", status |-> "ok",
                   prev_fn |-> act.activation_quantization_params_fn]
    /\ UNCHANGED <<nw_vars, wa_vars, g_vars, heap_vars, wr_vars>>

ActSetActivationQuantizationParam(activation_params) ==
    /\ ActLive
    /\ \E r \in {set_activation_quantization_param(act, activation_params)} :
          /\ act' = r.self
          /\ act_res' = [op |-> "set_activation_quantization_param", arg |-> "",
                         status |-> r.status,
                         prev_fn |-> act.activation_quantization_params_fn,
                         params |-> activation_params, pre |-> act]
    /\ UNCHANGED <<nw_vars, wa_vars, g_vars, heap_vars, wr_vars>>

ActQuantizeNodeOutput(tensors) ==
    /\ ActLive
    /\ \E r \in {quantize_node_output(act, tensors)} :
          act_res' = [op |-> "quantize_node_output", arg |-> tensors, status |-> r.status,
                      prev_fn |-> act.activation_quantization_params_fn,
                      output |-> r.output]
    /\ UNCHANGED act
    /\ UNCHANGED <<nw_vars, wa_vars, g_vars, heap_vars, wr_vars>>

\* act.no_quantization(), which calls self.has_activation_quantization_params()
ActNoQuantization ==
    /\ ActLive
    /\ act_res' = [op |-> "no_quantization", arg |-> "",
                   status |-> IF Hidden(act, {"no_quantization",
                                              "has_activation_quantization_params"})
                              THEN "TypeError" ELSE "ok",
                   prev_fn |-> act.activation_quantization_params_fn,
                   returned |-> IF Hidden(act, {"no_quantization",
                                                "has_activation_quantization_params"})
                                THEN None ELSE Some(no_quantization(act))]
    /\ UNCHANGED act
    /\ UNCHANGED <<nw_vars, wa_vars, g_vars, heap_vars, wr_vars>>

\* The node weights config the generic setter is tried on.
BaseCtorInputs ==
    [qc : {q \in WeightsQcs : q.weights_error_method = "MSE"},
     op_cfg : {OpCfgKernelBias},
     weights_channels_axis : {<<1, 0>>},
     node_attrs_list : {<<StrAttr(<<"k">>), IntAttr(0)>>}]

InitAct ==
    /\ \/ /\ ActConstruct(ActivationQcs, ActivationOpCfgs, ActivationQuantizationFns, {None})
          /\ NwIdle
       \/ /\ NwConstruct(BaseCtorInputs)
          /\ ActIdle
    /\ WaIdle /\ GIdle /\ HeapIdle /\ WrIdle

NextAct ==
    \/ \E name \in ActConfigParameterNames :
          \E value \in ActConfigParameterValues(name) : ActSetQuantConfigAttr(name, value)
    \/ \E fn \in UserFns : ActSetParamsFn(fn)
    \/ \E fn \in ActivationQuantizationFns : ActSetActivationQuantizationFn(fn)
    \/ \E d \in ActParamDicts : ActSetActivationQuantizationParam(d)
    \/ \E t \in Tensors : ActQuantizeNodeOutput(t)
    \/ ActNoQuantization
    \/ \E name \in ConfigParameterNames :
          \E value \in ConfigParameterValues(name) : SetQuantConfigAttr(name, value, NoneAttr)

SpecAct == InitAct /\ [][NextAct]_vars

---------------------------------------------------------------------------
(* Specification of the comparisons (SpecEq).  A behaviour compares one    *)
(* config, of one of the three classes, with other instances: one built    *)
(* from the same inputs, and ones that differ from it in one place.        *)

ActivationTrackedFields ==
    {"activation_quantization_fn", "activation_quantization_params_fn",
     "activation_error_method", "activation_quantization_method", "activation_n_bits",
     "enable_activation_quantization", "activation_channel_equalization", "input_scaling",
     "min_threshold", "l_p_value", "shift_negative_activation_correction", "z_threshold",
     "shift_negative_ratio", "shift_negative_threshold_recalculation"}

WeightsAttrTrackedFields ==
    {"weights_quantization_fn", "weights_quantization_params_fn", "weights_channels_axis",
     "weights_error_method", "weights_quantization_method", "weights_n_bits",
     "weights_per_channel_threshold", "enable_weights_quantization", "l_p_value"}

\* Values a field of an instance can hold.
FieldDomain(f) ==
    CASE f = "activation_quantization_fn" -> ActivationQuantizationFns
      [] f = "activation_quantization_params_fn" ->
             UserFns \cup {get_activation_quantization_params_fn(m) : m \in QuantizationMethod}
      [] f = "weights_quantization_fn" ->
             {None} \cup {get_weights_quantization_fn(m) : m \in QuantizationMethod}
      [] f = "weights_quantization_params_fn" ->
             UserFns \cup {get_weights_quantization_params_fn(m) : m \in QuantizationMethod}
      [] f = "weights_channels_axis" -> ChannelAxes
      [] f \in {"activation_error_method", "weights_error_method"} -> QuantizationErrorMethod
      [] f \in {"activation_quantization_method", "weights_quantization_method"} ->
             QuantizationMethod
      [] f \in {"activation_n_bits", "weights_n_bits"} -> {4, 8}
      [] f \in {"min_threshold", "shift_negative_ratio"} -> {1, 2}
      [] f = "l_p_value" -> {2, 3}
      [] f = "z_threshold" -> {3, 4}
      [] f = "simd_size" -> {16, 32}
      [] OTHER -> BOOLEAN

Reverse(seq) == [i \in 1..Len(seq) |-> seq[Len(seq) + 1 - i]]

WaLive == wa_res.op # "idle"

ActEq(kind, other) ==
    /\ act_res' = [op |-> "__eq__", arg |-> kind, status |-> "ok",
                   prev_fn |-> act.activation_quantization_params_fn,
                   twin |-> act_res.twin, other |-> other,
                   result |-> NodeActivationQuantizationConfig_eq(act, other),
                   hashes_equal |-> NodeActivationQuantizationConfig_hash(act) =
                                        NodeActivationQuantizationConfig_hash(other)]
    /\ UNCHANGED act
    /\ UNCHANGED <<nw_vars, wa_vars, g_vars, heap_vars, wr_vars>>

WaEq(kind, other) ==
    /\ wa_res' = [op |-> "__eq__", arg |-> kind, status |-> "ok", call |-> NoCall,
                  prev_fn |-> wa.weights_quantization_params_fn,
                  twin |-> wa_res.twin, other |-> other,
                  result |-> WeightsAttrQuantizationConfig_eq(wa, other),
                  hashes_equal |-> WeightsAttrQuantizationConfig_hash(wa) =
                                       WeightsAttrQuantizationConfig_hash(other)]
    /\ UNCHANGED wa
    /\ UNCHANGED <<nw_vars, act_vars, g_vars, heap_vars, wr_vars>>

NwEq(kind, other) ==
    /\ nw_res' = [op |-> "__eq__", status |-> "ok", arg |-> NoneAttr, value |-> None,
                  kind |-> kind, other |-> other,
                  result |-> NodeWeightsQuantizationConfig_eq(nw, other),
                  hashes_equal |-> NodeWeightsQuantizationConfig_hash(nw) =
                                       NodeWeightsQuantizationConfig_hash(other)]
    /\ UNCHANGED <<nw, nw_in, nw_sets, nw_ids>>
    /\ UNCHANGED <<wa_vars, act_vars, g_vars, heap_vars, wr_vars>>

\* The stored attribute keys of a node config, and the config under a key.
AttrKeys(self) ==
    {StrAttr(k) : k \in DOMAIN self.attributes_config_mapping}
        \cup {IntAttr(i) : i \in DOMAIN self.pos_attributes_config_mapping}

AttrCfg(self, key) ==
    IF IsInt(key) THEN self.pos_attributes_config_mapping[key.pos]
    ELSE self.attributes_config_mapping[key.name]

\* The node config without one of its keys.
WithoutKey(self, key) ==
    IF IsInt(key)
    THEN [self EXCEPT !.pos_attributes_config_mapping =
                          DictRestrict(@, DOMAIN @ \ {key.pos})]
    ELSE [self EXCEPT !.attributes_config_mapping =
                          DictRestrict(@, DOMAIN @ \ {key.name})]

\* Node configs to compare a constructed one with.
NwOthers ==
    {[kind |-> "reordered",
      other |-> Constructed([nw_in EXCEPT !.node_attrs_list = Reverse(@)])]}
    \cup UNION {{[kind |-> "node_field", other |-> [nw EXCEPT ![f] = v]] :
                     v \in FieldDomain(f)} : f \in NodeLevelFields}
    \cup {[kind |-> "key_removed", other |-> WithoutKey(nw, k)] : k \in AttrKeys(nw)}
    \cup {[kind |-> "key_added", other |-> set_attr_config(nw, k,
                         WeightsAttrQuantizationConfig(nw_in.qc, CfgBias,
                                                       nw_in.weights_channels_axis))] :
              k \in SetNodeAttrs \ AttrKeys(nw)}
    \cup UNION {{[kind |-> "attr_field",
                  other |-> set_attr_config(nw, k, [AttrCfg(nw, k) EXCEPT ![f] = v])] :
                     v \in FieldDomain(f)} :
                 k \in AttrKeys(nw), f \in WeightsAttrTrackedFields}
    \cup {[kind |-> "attr_params",
           other |-> set_attr_config(nw, k,
                        [AttrCfg(nw, k) EXCEPT !.weights_quantization_params =
                                                   [n \in {THRESHOLD} |-> 1]])] :
              k \in AttrKeys(nw)}

EqCtorInputs ==
    [qc : {q \in WeightsQcs : q.weights_error_method = "MSE"},
     op_cfg : {OpCfgKernelBias},
     weights_channels_axis : {<<1, 0>>},
     node_attrs_list : SeqsUpTo(SetNodeAttrs, MaxAttrs)]

InitEq ==
    /\ \/ /\ \E qc \in ActivationQcs, op_cfg \in ActivationOpCfgs,
                 fn \in ActivationQuantizationFns :
                /\ act = NodeActivationQuantizationConfig(qc, op_cfg, fn, None)
                /\ act_res = [op |-> "__init__", arg |-> "", status |-> "ok",
                              prev_fn |-> None,
                              twin |-> NodeActivationQuantizationConfig(qc, op_cfg, fn, None)]
          /\ NwIdle /\ WaIdle
       \/ /\ \E qc \in WeightsQcs, cfg \in AttributeQuantizationConfigs, axis \in ChannelAxes :
                /\ wa = WeightsAttrQuantizationConfig(qc, cfg, axis)
                /\ wa_res = [op |-> "__init__", arg |-> "", status |-> "ok", call |-> NoCall,
                             prev_fn |-> None,
                             twin |-> WeightsAttrQuantizationConfig(qc, cfg, axis)]
          /\ NwIdle /\ ActIdle
       \/ /\ NwConstruct(EqCtorInputs)
          /\ WaIdle /\ ActIdle
    /\ GIdle /\ HeapIdle /\ WrIdle

NextEq ==
    \/ ActLive /\ ActEq("same_inputs", act_res.twin)
    \/ /\ ActLive
       /\ \E f \in ActivationTrackedFields :
             \E v \in FieldDomain(f) \ {act[f]} : ActEq(f, [act EXCEPT ![f] = v])
    \/ WaLive /\ WaEq("same_inputs", wa_res.twin)
    \/ /\ WaLive
       /\ \E f \in WeightsAttrTrackedFields :
             \E v \in FieldDomain(f) \ {wa[f]} : WaEq(f, [wa EXCEPT ![f] = v])
    \/ /\ nw.status = "ok"
       /\ \E o \in NwOthers : NwEq(o.kind, o.other)

SpecEq == InitEq /\ [][NextEq]_vars

---------------------------------------------------------------------------
(* Specification of the calibration of several nodes (SpecPar).  Every     *)
(* node holds an activation config and a node weights config, built from   *)
(* the same QuantizationConfig and OpQuantizationConfig.  The configs are  *)
(* objects of one heap: a node holds references, an object holds its       *)
(* fields and a reference to its params dict.  A param setter writes into  *)
(* the dict the object refers to; setattr rebinds a field of the object,   *)
(* and a dict passed as the value is the caller's object, which the field  *)
(* then refers to: a dict passed to two configs is one dict both refer to. *)
(* Calls on the nodes are taken in any order.                              *)

CfgNodes == {1, 2}

Slot(kind, attr) == [kind |-> kind, attr |-> attr]

\* Bug variant: the objects and dicts are created once and every node is
\* handed the same ones.
NewObjectOfFirstNode(n, slot) == <<1, slot>>

\* The object a constructor call, or a {} literal, yields when the
\* constructor of node n runs it for the given slot: a new one each time.
NewObject(n, slot) == <<n, slot>>

\* The references a node holds after construction: the mappings of its node
\* weights config hold the objects made for its attributes.
NodeRefs(n, nv) ==
    [act |-> NewObject(n, Slot("act", NoneAttr)),
     nw |-> [nv EXCEPT
               !.attributes_config_mapping =
                   [k \in DOMAIN @ |-> NewObject(n, Slot("attr", StrAttr(k)))],
               !.pos_attributes_config_mapping =
                   [k \in DOMAIN @ |-> NewObject(n, Slot("attr", IntAttr(k)))]]]

\* The object made for a slot: the constructed fields, with the params field
\* referring to the dict made for it.
SlotObject(n, slot, av, nv) ==
    IF slot.kind = "act"
    THEN [av EXCEPT !.activation_quantization_params =
                        NewObject(n, Slot("act_params", NoneAttr))]
    ELSE [AttrCfg(nv, slot.attr) EXCEPT !.weights_quantization_params =
                                            NewObject(n, Slot("attr_params", slot.attr))]

ObjectSlots(nv) == {Slot("act", NoneAttr)} \cup {Slot("attr", k) : k \in AttrKeys(nv)}

DictSlots(nv) == {Slot("act_params", NoneAttr)} \cup {Slot("attr_params", k) : k \in AttrKeys(nv)}

\* The heap after the constructors of every node have run.
ConstructedHeap(av, nv) ==
    [cfg |-> [n \in CfgNodes |-> NodeRefs(n, nv)],
     obj |-> [o \in {NewObject(n, s) : n \in CfgNodes, s \in ObjectSlots(nv)} |->
                LET made == CHOOSE ns \in CfgNodes \X ObjectSlots(nv) :
                                NewObject(ns[1], ns[2]) = o
                IN  SlotObject(made[1], made[2], av, nv)],
     dict |-> [d \in {NewObject(n, s) : n \in CfgNodes, s \in DictSlots(nv)} |-> EmptyDict],
     calls |-> [n \in CfgNodes |-> 0],
     handed |-> EmptyDict]

\* An object as its methods see it: its fields, and the content of its dict.
ActDeref(h, o) == [h.obj[o] EXCEPT !.activation_quantization_params = h.dict[@]]

WaDeref(h, o) == [h.obj[o] EXCEPT !.weights_quantization_params = h.dict[@]]

\* The heap after set_activation_quantization_param (lines 179-180) or
\* set_weights_quantization_param (lines 318-319) has left object o as v: the
\* object refers to the dict it referred to, and the params are written
\* into that dict.
ActStore(h, o, v) ==
    [h EXCEPT !.obj[o] = [v EXCEPT !.activation_quantization_params =
                                       h.obj[o].activation_quantization_params],
              !.dict[h.obj[o].activation_quantization_params] =
                  v.activation_quantization_params]

WaStore(h, o, v) ==
    [h EXCEPT !.obj[o] = [v EXCEPT !.weights_quantization_params =
                                       h.obj[o].weights_quantization_params],
              !.dict[h.obj[o].weights_quantization_params] =
                  v.weights_quantization_params]

\* The node weights config of node n as its methods see it, and the identity
\* of the object under each of its keys.
NwIds(h, n) ==
    [named |-> h.cfg[n].nw.attributes_config_mapping,
     pos |-> h.cfg[n].nw.pos_attributes_config_mapping]

NwDeref(h, n) ==
    [h.cfg[n].nw EXCEPT
        !.attributes_config_mapping = [k \in DOMAIN @ |-> WaDeref(h, @[k])],
        !.pos_attributes_config_mapping = [k \in DOMAIN @ |-> WaDeref(h, @[k])]]

\* The node weights config of node n with the objects its keys refer to in
\* place of the references: what set_quant_config_attr with an attr_name
\* works on.  The params field of an object is the reference it holds.
NwObjects(h, n) ==
    [h.cfg[n].nw EXCEPT
        !.attributes_config_mapping = [k \in DOMAIN @ |-> h.obj[@[k]]],
        !.pos_attributes_config_mapping = [k \in DOMAIN @ |-> h.obj[@[k]]]]

\* The heap after set_quant_config_attr with an attr_name has left
\* NwObjects(h, n) as v: every object a key of the node refers to has the
\* fields v shows under that key (line 547 rebinds, the params field too, to
\* the reference passed); the mappings keep their references.
NwStore(h, n, v) ==
    LET refs == h.cfg[n].nw
        held == {AttrCfg(refs, k) : k \in AttrKeys(refs)}
    IN  [h EXCEPT
            !.cfg[n].nw = [v EXCEPT
                              !.attributes_config_mapping = refs.attributes_config_mapping,
                              !.pos_attributes_config_mapping =
                                  refs.pos_attributes_config_mapping],
            !.obj = [o \in DOMAIN @ |->
                        IF o \in held
                        THEN AttrCfg(v, CHOOSE k \in AttrKeys(refs) : AttrCfg(refs, k) = o)
                        ELSE @[o]]]

\* The fields that hold a dict.  The value a caller passes for one is a
\* dict object of the caller's, a reference like any other: CallerDicts are
\* the dicts the caller has made, each holding a threshold, and the heap
\* holds them next to the dicts the constructors made.
ParamsFieldNames == {"activation_quantization_params", "weights_quantization_params"}

PassedDict(i) == <<0, Slot("passed", IntAttr(i))>>

CallerDicts == {PassedDict(1), PassedDict(2)}

WithCallerDicts(h) ==
    [h EXCEPT !.dict = [d \in DOMAIN @ \cup CallerDicts |->
                           IF d \in CallerDicts THEN [p \in {THRESHOLD} |-> 2] ELSE @[d]]]

\* History: the nodes whose setters a dict has been passed to.
Handed(h, name, value, n) ==
    IF name \in ParamsFieldNames
    THEN [h EXCEPT !.handed = DictSet(@, value,
                                  (IF value \in DOMAIN @ THEN @[value] ELSE {}) \cup {n})]
    ELSE h

\* The heap after BaseNodeQuantizationConfig.set_quant_config_attr on the
\* activation config object o: lines 58-59 on the object itself.
HeapActSetQuantConfigAttr(h, o, name, value) ==
    [h EXCEPT !.obj[o] = base_set_quant_config_attr(@, name, value).self]

\* The heap after NodeWeightsQuantizationConfig.set_quant_config_attr on the
\* node weights config of node n: with attr_name omitted the base setter on
\* the node config itself, else the setter on the object attr_name resolves
\* to.
HeapSetQuantConfigAttr(h, n, name, value, attr_name) ==
    IF attr_name = NoneAttr
    THEN [h EXCEPT !.cfg[n].nw = base_set_quant_config_attr(@, name, value).self]
    ELSE NwStore(h, n, set_quant_config_attr(NwObjects(h, n), NwIds(h, n),
                                             name, value, attr_name).self)

Called(h, n) == [h EXCEPT !.calls[n] = @ + 1]

CallsLeft == heap.calls # <<>> /\ heap.calls[1] + heap.calls[2] < MaxCalls

\* Each call is made on the heap and, for the node it is made on, on the heap
\* on which only that node's calls are made.
ParSetActivationQuantizationParam(n, activation_params) ==
    LET after(h) ==
            ActStore(h, h.cfg[n].act,
                     set_activation_quantization_param(ActDeref(h, h.cfg[n].act),
                                                       activation_params).self)
    IN  /\ CallsLeft
        /\ heap' = Called(after(heap), n)
        /\ alone' = [alone EXCEPT ![n] = after(@)]
        /\ UNCHANGED <<nw_vars, wa_vars, act_vars, g_vars, wr_vars>>

ParActSetQuantConfigAttr(n, name, value) ==
    LET after(h) == HeapActSetQuantConfigAttr(h, h.cfg[n].act, name, value)
    IN  /\ CallsLeft
        /\ heap' = Called(Handed(after(heap), name, value, n), n)
        /\ alone' = [alone EXCEPT ![n] = after(@)]
        /\ UNCHANGED <<nw_vars, wa_vars, act_vars, g_vars, wr_vars>>

ParSetWeightsQuantizationParam(n, key, weights_params) ==
    LET after(h) ==
            WaStore(h, AttrCfg(h.cfg[n].nw, key),
                    set_weights_quantization_param(
                        WaDeref(h, AttrCfg(h.cfg[n].nw, key)), weights_params).self)
    IN  /\ CallsLeft
        /\ key \in AttrKeys(heap.cfg[n].nw)
        /\ heap' = Called(after(heap), n)
        /\ alone' = [alone EXCEPT ![n] = after(@)]
        /\ UNCHANGED <<nw_vars, wa_vars, act_vars, g_vars, wr_vars>>

ParCalculateAndSetWeightsParams(n, key, min_threshold, fn_result) ==
    LET after(h) ==
            WaStore(h, AttrCfg(h.cfg[n].nw, key),
                    calculate_and_set_weights_params(
                        WaDeref(h, AttrCfg(h.cfg[n].nw, key)),
                        min_threshold, fn_result).self)
    IN  /\ CallsLeft
        /\ key \in AttrKeys(heap.cfg[n].nw)
        /\ heap' = Called(after(heap), n)
        /\ alone' = [alone EXCEPT ![n] = after(@)]
        /\ UNCHANGED <<nw_vars, wa_vars, act_vars, g_vars, wr_vars>>

ParSetQuantConfigAttr(n, name, value, attr_name) ==
    LET after(h) == HeapSetQuantConfigAttr(h, n, name, value, attr_name)
    IN  /\ CallsLeft
        /\ heap' = Called(Handed(after(heap), name, value, n), n)
        /\ alone' = [alone EXCEPT ![n] = after(@)]
        /\ UNCHANGED <<nw_vars, wa_vars, act_vars, g_vars, wr_vars>>

ParCtorInputs ==
    [qc : {q \in WeightsQcs : q.weights_error_method = "MSE"},
     op_cfg : {OpCfgKernelBias},
     weights_channels_axis : {<<1, 0>>},
     node_attrs_list : {<<StrAttr(<<"k">>), StrAttr(<<"b">>)>>,
                        <<StrAttr(<<"k">>), IntAttr(0)>>}]

ParParamDicts == {[p \in {THRESHOLD} |-> 1]}

\* config_parameter_name on a node weights config and the values passed for
\* it: a field of the attribute configs and a field of the node config.
ParParameterNames == {"weights_n_bits", "min_threshold"}

\* The attributes whose params field is handed one of the caller's dicts: a
\* named and a positional one.
ParDictAttrs == {StrAttr(<<"k">>), IntAttr(0)}

InitPar ==
    /\ \E in \in ParCtorInputs :
       \E op_cfg \in {o \in ActivationOpCfgs : o.enable_activation_quantization} :
       \E av \in {NodeActivationQuantizationConfig(in.qc, op_cfg, <<"user_fn", "q">>, None)} :
          /\ heap = WithCallerDicts(ConstructedHeap(av, Constructed(in)))
          /\ alone = [n \in CfgNodes |-> heap]
    /\ NwIdle /\ WaIdle /\ ActIdle /\ GIdle /\ WrIdle

NextPar ==
    \E n \in CfgNodes :
       \/ \E d \in ParParamDicts : ParSetActivationQuantizationParam(n, d)
       \/ ParActSetQuantConfigAttr(n, "activation_n_bits", 4)
       \/ \E d \in CallerDicts :
             ParActSetQuantConfigAttr(n, "activation_quantization_params", d)
       \/ \E key \in SetLookupAttrs, d \in ParParamDicts :
             ParSetWeightsQuantizationParam(n, key, d)
       \/ \E key \in SetLookupAttrs, d \in ParParamDicts :
             ParCalculateAndSetWeightsParams(n, key, 1, d)
       \/ \E attr_name \in SetLookupAttrs \cup {NoneAttr} :
             \E name \in ParParameterNames :
                \E value \in ConfigParameterValues(name) :
                   ParSetQuantConfigAttr(n, name, value, attr_name)
       \/ \E attr_name \in ParDictAttrs, d \in CallerDicts :
             ParSetQuantConfigAttr(n, "weights_quantization_params", d, attr_name)

SpecPar == InitPar /\ [][NextPar]_vars

---------------------------------------------------------------------------
(* Specification of calibration followed by the substitution               *)
(* (SpecEnable).  The nodes of SpecPar are the nodes of a graph in which   *)
(* node 2 is a Concatenate node fed by node 1; their configs are           *)
(* calibrated, their fields are edited, and substitute is applied.         *)

\* The activation params of every node, as substitute reads them through
\* candidates_quantization_cfg[0].activation_quantization_cfg.
HeapParams(h) ==
    [n \in CfgNodes |-> ActDeref(h, h.cfg[n].act).activation_quantization_params]

\* The heap after substitute: line 57 stores the threshold into the dict
\* that the activation config of a predecessor with one consumer refers to,
\* whichever other configs refer to that dict as well.
HeapSubstituted(h, edges, node) ==
    LET written(d) ==
            {n \in CfgNodes :
                /\ h.obj[h.cfg[n].act].activation_quantization_params = d
                /\ n \in get_prev_nodes(edges, node)
                /\ SingleConsumer(edges, n)}
    IN  [h EXCEPT !.dict =
            [d \in DOMAIN @ |->
                IF written(d) # {}
                THEN substitute(edges, HeapParams(h), node)[CHOOSE n \in written(d) : TRUE]
                ELSE @[d]]]

HeapSubstitute(node) ==
    /\ CallsLeft
    /\ node \in g_concat
    /\ heap' = Called(HeapSubstituted(heap, g_edges, node), node)
    /\ UNCHANGED alone
    /\ UNCHANGED <<nw_vars, wa_vars, act_vars, g_vars, wr_vars>>

InitEnable ==
    /\ \E in \in ParCtorInputs, op_cfg \in ActivationOpCfgs :
       \E av \in {NodeActivationQuantizationConfig(in.qc, op_cfg, <<"user_fn", "q">>, None)} :
          /\ heap = ConstructedHeap(av, Constructed(in))
          /\ alone = [n \in CfgNodes |-> heap]
    /\ g_edges = {<<1, 2>>}
    /\ g_concat = {2}
    /\ g_params = <<>>
    /\ g_res = [op |-> "idle", node |-> 0, concat_threshold |-> None, pre |-> <<>>]
    /\ NwIdle /\ WaIdle /\ ActIdle /\ WrIdle

NextEnable ==
    \/ \E n \in CfgNodes :
          \/ ParSetActivationQuantizationParam(n, [p \in {THRESHOLD} |-> 1])
          \/ \E value \in BOOLEAN :
                ParActSetQuantConfigAttr(n, "enable_activation_quantization", value)
          \/ \E key \in SetLookupAttrs :
                ParSetWeightsQuantizationParam(n, key, [p \in {THRESHOLD} |-> 1])
          \/ \E key \in SetLookupAttrs :
                ParCalculateAndSetWeightsParams(n, key, 1, [p \in {THRESHOLD} |-> 1])
          \/ \E attr_name \in SetLookupAttrs, value \in BOOLEAN :
                ParSetQuantConfigAttr(n, "enable_weights_quantization", value, attr_name)
    \/ \E node \in CfgNodes : HeapSubstitute(node)

SpecEnable == InitEnable /\ [][NextEnable]_vars

---------------------------------------------------------------------------
(* Specification of editing the quantization method of a config            *)
(* (SpecMethod): after construction only set_quant_config_attr is called,  *)
(* on an activation config or on a node weights config and its attributes. *)

MethodParameterNames(kind) ==
    {kind \o "_quantization_method", kind \o "_error_method", kind \o "_n_bits"}

MethodParameterValues(name) ==
    CASE name \in {"activation_quantization_method", "weights_quantization_method"} ->
             QuantizationMethod
      [] name \in {"activation_error_method", "weights_error_method"} ->
             QuantizationErrorMethod
      [] OTHER -> {4, 8}

InitMethod ==
    /\ \/ /\ ActConstruct(ActivationQcs, ActivationOpCfgs, {<<"user_fn", "q">>}, UserFns)
          /\ NwIdle
       \/ /\ NwConstruct(ParCtorInputs)
          /\ ActIdle
    /\ WaIdle /\ GIdle /\ HeapIdle /\ WrIdle

NextMethod ==
    \/ \E name \in MethodParameterNames("activation") :
          \E value \in MethodParameterValues(name) : ActSetQuantConfigAttr(name, value)
    \/ \E name \in MethodParameterNames("weights"), attr_name \in SetLookupAttrs :
          \E value \in MethodParameterValues(name) :
             SetQuantConfigAttr(name, value, attr_name)

SpecMethod == InitMethod /\ [][NextMethod]_vars

---------------------------------------------------------------------------
(* PytorchQuantizationWrapper (quantize_wrapper.py).  A tensor is a shape  *)
(* and a value; a layer is its kind and its weight attributes; the         *)
(* dispatcher holds the weight quantizers, as name-quantizer pairs in      *)
(* insertion order, and the list of activation quantizers.                 *)

Tensor(shape, value) == [shape |-> shape, value |-> value]

\* quantizer(unquantized_weight, self.training): the weight quantizers are
\* functions of the tensor and the training flag.  "halve" and "even" keep
\* the shape, "flatten" does not.
Quantize(quantizer, tensor, training) ==
    CASE quantizer = "halve" ->
             [tensor EXCEPT !.value = IF training THEN @ \div 2 ELSE (@ + 1) \div 2]
      [] quantizer = "even" -> [tensor EXCEPT !.value = @ - (@ % 2)]
      [] quantizer = "flatten" -> [tensor EXCEPT !.shape = <<4>>]

\* quantizer(output): an activation quantizer.
ActQuantize(quantizer, tensor) ==
    CASE quantizer = "halve" -> [tensor EXCEPT !.value = @ \div 2]
      [] quantizer = "even" -> [tensor EXCEPT !.value = @ - (@ % 2)]

\* dispatcher.num_act_quantizers and dispatcher.is_activation_quantization
num_act_quantizers(dispatcher) == Len(dispatcher.activation_quantizers)

is_activation_quantization(dispatcher) == num_act_quantizers(dispatcher) > 0

\* self.layer(x): the layer computes its outputs from its input and from
\* the weights installed in it when it is called; it returns one tensor, or
\* a list of tensors.
LayerOp(layer, x) ==
    LET out(i) == Tensor(<<1>>, x + 2 * layer.weights["weight"].value
                                  + layer.weights["bias"].value + i)
    IN  CASE layer.kind = "tensor" -> [is_list |-> FALSE, items |-> <<out(0)>>]
          [] layer.kind = "list1" -> [is_list |-> TRUE, items |-> <<out(0)>>]
          [] layer.kind = "list2" -> [is_list |-> TRUE, items |-> <<out(0), out(1)>>]

\* __init__(module, dispatcher): lines 45-51 keep, per weight quantizer, the
\* name, the weight the layer holds at construction, and the quantizer.
PytorchQuantizationWrapper(module, dispatcher) ==
    [status |-> "ok", dispatcher |-> dispatcher, layer |-> module, training |-> TRUE,
     weight_vars |-> [i \in 1..Len(dispatcher.weight_quantizers) |->
                        [name |-> dispatcher.weight_quantizers[i][1],
                         weight |-> module.weights[dispatcher.weight_quantizers[i][1]],
                         quantizer |-> dispatcher.weight_quantizers[i][2]]],
     activation_vars |-> dispatcher.activation_quantizers]

\* set_quantize_weights(quantized_weights): the loop of lines 70-77 from the
\* i-th weight quantizer on.  quantized_weights.get gives None for a name
\* the dict lacks, and reading its shape raises AttributeError; Logger.error
\* raises at the first weight whose shape differs; the weights before it
\* stay installed.
RECURSIVE SetQuantizeWeightsFrom(_, _, _)
SetQuantizeWeightsFrom(self, quantized_weights, i) ==
    IF i > Len(self.dispatcher.weight_quantizers) THEN [status |-> "ok", self |-> self]
    ELSE LET weight_attr == self.dispatcher.weight_quantizers[i][1]
             weight == DictGet(quantized_weights, weight_attr)
             current_weight == self.layer.weights[weight_attr]
         IN  IF weight = None
             THEN [status |-> "AttributeError", self |-> self]
             ELSE IF current_weight.shape # weight[1].shape /\ Logger_error = "raise"
             THEN [status |-> "Exception", self |-> self]
             ELSE SetQuantizeWeightsFrom(
                      [self EXCEPT !.layer.weights[weight_attr] = weight[1]],
                      quantized_weights, i + 1)

set_quantize_weights(self, quantized_weights) ==
    SetQuantizeWeightsFrom(self, quantized_weights, 1)

\* Bug variant: each call quantizes the weight the layer holds at the time
\* of the call, so quantization compounds over the calls.
QuantizedWeightsOfLayer(self) ==
    [name \in {self.weight_vars[i].name : i \in 1..Len(self.weight_vars)} |->
        LET i == CHOOSE j \in 1..Len(self.weight_vars) : self.weight_vars[j].name = name
        IN  Quantize(self.weight_vars[i].quantizer, self.layer.weights[name],
                     self.training)]

\* Lines 92-95: every kept weight, quantized.
QuantizedWeights(self) ==
    [name \in {self.weight_vars[i].name : i \in 1..Len(self.weight_vars)} |->
        LET i == CHOOSE j \in 1..Len(self.weight_vars) :
                     /\ self.weight_vars[j].name = name
                     /\ \A k \in (j + 1)..Len(self.weight_vars) :
                            self.weight_vars[k].name # name
        IN  Quantize(self.weight_vars[i].quantizer, self.weight_vars[i].weight,
                     self.training)]

\* Lines 107-120: the activation quantizers, applied to the outputs of the
\* layer operation.
QuantizeActivations(self, outputs) ==
    IF ~is_activation_quantization(self.dispatcher)
    THEN [status |-> "ok", outputs |-> outputs]
    ELSE IF Len(outputs.items) # num_act_quantizers(self.dispatcher) /\ Logger_error = "raise"
    THEN [status |-> "Exception", outputs |-> outputs]
    ELSE LET outputs_quantized ==
                 [i \in 1..Len(outputs.items) |->
                     ActQuantize(self.activation_vars[i], outputs.items[i])]
         IN  [status |-> "ok",
              outputs |-> [is_list |-> Len(outputs_quantized) # 1,
                           items |-> outputs_quantized]]

\* forward(x).  used is the weights the layer operation ran with, and None
\* when it did not run.
forward(self, x) ==
    LET installed == set_quantize_weights(self, QuantizedWeights(self))
    IN  IF installed.status # "ok"
        THEN [status |-> installed.status, self |-> installed.self,
              used |-> None, outputs |-> None]
        ELSE [status |-> QuantizeActivations(installed.self,
                                             LayerOp(installed.self.layer, x)).status,
              self |-> installed.self,
              used |-> Some(installed.self.layer.weights),
              outputs |-> IF QuantizeActivations(installed.self,
                                                 LayerOp(installed.self.layer, x)).status = "ok"
                          THEN Some(QuantizeActivations(installed.self,
                                        LayerOp(installed.self.layer, x)).outputs)
                          ELSE None]

---------------------------------------------------------------------------
(* Specification of a wrapped layer run forward any number of times        *)
(* (SpecWrapper), in training and in evaluation mode.                      *)

WeightValues == {5, 6}

Modules ==
    [kind : {"tensor", "list1", "list2"},
     weights : [{"weight", "bias"} -> {Tensor(<<2, 2>>, v) : v \in WeightValues}]]

Dispatchers ==
    [weight_quantizers :
         {<<>>, << <<"weight", "halve">> >>, << <<"weight", "even">> >>,
          << <<"weight", "halve">>, <<"bias", "halve">> >>,
          << <<"bias", "even">>, <<"weight", "halve">> >>,
          << <<"weight", "halve">>, <<"bias", "flatten">> >>},
     activation_quantizers : {<<>>, <<"halve">>, <<"even">>, <<"halve", "even">>}]

Inputs == {1, 2}

\* The dicts a caller passes to set_quantize_weights directly: tensors of
\* the layer's weight shape or of another shape, for any of the names.
GivenWeights ==
    UNION {[K -> {Tensor(<<2, 2>>, 9), Tensor(<<4>>, 9)}] : K \in SUBSET {"weight", "bias"}}

WrLive == wrapper.status = "ok"

InitWrapper ==
    /\ \E module \in Modules, dispatcher \in Dispatchers :
          /\ wrapper = PytorchQuantizationWrapper(module, dispatcher)
          /\ wr_res = [op |-> "__init__", status |-> "ok", module |-> module]
    /\ NwIdle /\ WaIdle /\ ActIdle /\ GIdle /\ HeapIdle

Forward(x) ==
    /\ WrLive
    /\ \E r \in {forward(wrapper, x)} :
          /\ wrapper' = r.self
          /\ wr_res' = [op |-> "forward", status |-> r.status, module |-> wr_res.module,
                        x |-> x, training |-> wrapper.training, pre |-> wrapper,
                        used |-> r.used, outputs |-> r.outputs]
    /\ UNCHANGED <<nw_vars, wa_vars, act_vars, g_vars, heap_vars>>

\* wrapper.set_quantize_weights(quantized_weights), called by a user of the
\* wrapper rather than by forward.
SetQuantizeWeights(quantized_weights) ==
    /\ WrLive
    /\ \E r \in {set_quantize_weights(wrapper, quantized_weights)} :
          /\ wrapper' = r.self
          /\ wr_res' = [op |-> "set_quantize_weights", status |-> r.status,
                        module |-> wr_res.module, pre |-> wrapper,
                        quantized_weights |-> quantized_weights]
    /\ UNCHANGED <<nw_vars, wa_vars, act_vars, g_vars, heap_vars>>

\* nn.Module.train(mode) / eval(): sets self.training.
Train(mode) ==
    /\ WrLive
    /\ wrapper' = [wrapper EXCEPT !.training = mode]
    /\ wr_res' = [op |-> "train", status |-> "ok", module |-> wr_res.module]
    /\ UNCHANGED <<nw_vars, wa_vars, act_vars, g_vars, heap_vars>>

NextWrapper ==
    \/ \E x \in Inputs : Forward(x)
    \/ \E quantized_weights \in GivenWeights : SetQuantizeWeights(quantized_weights)
    \/ \E mode \in BOOLEAN : Train(mode)

SpecWrapper == InitWrapper /\ [][NextWrapper]_vars

---------------------------------------------------------------------------
(* Specification of the threshold propagation on a graph (SpecGraph).      *)

\* Acyclic graphs: the nodes are numbered in a topological order.
Graphs == SUBSET {e \in (1..NumNodes) \X (1..NumNodes) : e[1] < e[2]}

\* Calibrated parameters of a node: a threshold, or nothing.
NodeParamDicts ==
    {EmptyDict} \cup {[k \in {THRESHOLD} |-> Some(t)] : t \in 1..MaxThreshold}

InitGraph ==
    /\ g_edges \in Graphs
    /\ g_concat \in (SUBSET {n \in 1..NumNodes : get_prev_nodes(g_edges, n) # {}}) \ {{}}
    /\ g_params \in [1..NumNodes -> NodeParamDicts]
    /\ g_res = [op |-> "idle", node |-> 0, concat_threshold |-> None, pre |-> g_params]
    /\ NwIdle /\ WaIdle /\ ActIdle /\ HeapIdle /\ WrIdle

\* The substitution framework calls substitute on a node the matcher
\* accepts: a Concatenate node.
Substitute(node) ==
    /\ node \in g_concat
    /\ g_params' = substitute(g_edges, g_params, node)
    /\ g_res' = [op |-> "substitute", node |-> node,
                 concat_threshold |-> ConcatThreshold(g_params, node),
                 pre |-> g_params]
    /\ UNCHANGED <<g_edges, g_concat>>
    /\ UNCHANGED <<nw_vars, wa_vars, act_vars, heap_vars, wr_vars>>

NextGraph == \E node \in 1..NumNodes : Substitute(node)

SpecGraph == InitGraph /\ [][NextGraph]_vars

---------------------------------------------------------------------------
(* Specification of one pass of the substitution over a graph (SpecPass):  *)
(* substitute is called once on every Concatenate node, in any order.      *)

InitPass ==
    /\ g_edges \in Graphs
    /\ g_concat \in (SUBSET {n \in 1..NumNodes : get_prev_nodes(g_edges, n) # {}}) \ {{}}
    /\ g_params \in [1..NumNodes -> NodeParamDicts]
    /\ g_res = [op |-> "pass", node |-> 0, concat_threshold |-> None, pre |-> g_params,
                visited |-> {}]
    /\ NwIdle /\ WaIdle /\ ActIdle /\ HeapIdle /\ WrIdle

\* The next matched node of the pass: a Concatenate node not visited yet.
SubstituteOnce(node) ==
    /\ g_res.op = "pass"
    /\ node \in g_concat \ g_res.visited
    /\ g_params' = substitute(g_edges, g_params, node)
    /\ g_res' = [op |-> "pass", node |-> node,
                 concat_threshold |-> ConcatThreshold(g_params, node),
                 pre |-> g_res.pre, visited |-> g_res.visited \cup {node}]
    /\ UNCHANGED <<g_edges, g_concat>>
    /\ UNCHANGED <<nw_vars, wa_vars, act_vars, heap_vars, wr_vars>>

NextPass == \E node \in 1..NumNodes : SubstituteOnce(node)

SpecPass == InitPass /\ [][NextPass]_vars

---------------------------------------------------------------------------
(* Specification of one substitute call on a graph whose nodes also hold   *)
(* parameters other than the threshold (SpecFrame).                        *)

\* Calibrated parameters of a node: a threshold or not, a scale or not.
FrameParamDicts ==
    {DictUpdate(d, s) : d \in NodeParamDicts,
                        s \in {EmptyDict, [k \in {"scale"} |-> Some(1)]}}

InitFrame ==
    /\ g_edges \in Graphs
    /\ g_concat \in {{n} : n \in {m \in 1..NumNodes : get_prev_nodes(g_edges, m) # {}}}
    /\ g_params \in [1..NumNodes -> FrameParamDicts]
    /\ g_res = [op |-> "idle", node |-> 0, concat_threshold |-> None, pre |-> g_params]
    /\ NwIdle /\ WaIdle /\ ActIdle /\ HeapIdle /\ WrIdle

NextFrame == \E node \in 1..NumNodes : Substitute(node)

SpecFrame == InitFrame /\ [][NextFrame]_vars

---------------------------------------------------------------------------
(* Properties of NodeWeightsQuantizationConfig construction (SpecCtor).    *)

\* The keys of the capability mapping that are substrings of a node
\* attribute name, as positions in the mapping.
MatchingKeys(op_cfg, name) ==
    {i \in 1..Len(op_cfg.attr_weights_configs_mapping) :
        IsSubstring(op_cfg.attr_weights_configs_mapping[i][1], name)}

DeclaredNames ==
    {nw_in.node_attrs_list[i].name : i \in {j \in 1..Len(nw_in.node_attrs_list) :
                                              ~IsInt(nw_in.node_attrs_list[j])}}
DeclaredPositions ==
    {nw_in.node_attrs_list[i].pos : i \in {j \in 1..Len(nw_in.node_attrs_list) :
                                             IsInt(nw_in.node_attrs_list[j])}}

ResolvedFrom(attr_cfg) ==
    WeightsAttrQuantizationConfig(nw_in.qc, attr_cfg, nw_in.weights_channels_axis)

\* C1: constructing with a positional attribute in node_attrs_list while the
\* operator's default attribute config has quantization enabled fails
\* fatally: the constructor raises and the caller holds no object, so no
\* positional attribute config exists.
C1_PositionalWithEnabledDefaultFails ==
    (DeclaredPositions # {} /\ nw_in.op_cfg.default_weight_attr_config.enable_weights_quantization)
        => /\ nw.status = "Exception"
           /\ DOMAIN nw.pos_attributes_config_mapping = {}

\* C1 witness: the only declared attribute is positional, the default config
\* is enabled, and the constructor has raised.
C1_Witness ==
    /\ nw_res.op = "__init__"
    /\ Len(nw_in.node_attrs_list) = 1
    /\ IsInt(nw_in.node_attrs_list[1])
    /\ nw_in.op_cfg.default_weight_attr_config.enable_weights_quantization
    /\ nw_res.status = "Exception"

\* C2: after a completed construction every declared named attribute is
\* stored; one whose name contains exactly one capability key holds the
\* config resolved from that key's AttributeQuantizationConfig, one whose
\* name contains no key holds the config resolved from the default, and
\* every declared positional attribute holds the config resolved from the
\* default.
C2_AttrResolution ==
    nw.status = "ok" =>
        /\ DOMAIN nw.attributes_config_mapping = DeclaredNames
        /\ DOMAIN nw.pos_attributes_config_mapping = DeclaredPositions
        /\ \A n \in DeclaredNames :
              /\ Cardinality(MatchingKeys(nw_in.op_cfg, n)) = 1 =>
                    \A i \in MatchingKeys(nw_in.op_cfg, n) :
                        nw.attributes_config_mapping[n] =
                            ResolvedFrom(nw_in.op_cfg.attr_weights_configs_mapping[i][2])
              /\ MatchingKeys(nw_in.op_cfg, n) = {} =>
                    nw.attributes_config_mapping[n] =
                        ResolvedFrom(nw_in.op_cfg.default_weight_attr_config)
        /\ \A p \in DeclaredPositions :
              nw.pos_attributes_config_mapping[p] =
                  ResolvedFrom(nw_in.op_cfg.default_weight_attr_config)

\* C2 witness: a constructed config with one attribute matched by exactly
\* one key whose config differs from the default, and one attribute matched
\* by no key.
C2_Witness ==
    /\ nw.status = "ok"
    /\ \E n \in DeclaredNames :
          /\ Cardinality(MatchingKeys(nw_in.op_cfg, n)) = 1
          /\ \A i \in MatchingKeys(nw_in.op_cfg, n) :
                nw_in.op_cfg.attr_weights_configs_mapping[i][2] #
                    nw_in.op_cfg.default_weight_attr_config
    /\ \E n \in DeclaredNames : MatchingKeys(nw_in.op_cfg, n) = {}

\* C3: a declared named attribute whose name contains more than one
\* capability key makes the constructor raise; no object is produced.
C3_AmbiguousNameFails ==
    (\E n \in DeclaredNames : Cardinality(MatchingKeys(nw_in.op_cfg, n)) > 1)
        => /\ nw.status = "Exception"
           /\ DOMAIN nw.attributes_config_mapping = {}

\* C3 witness: the only declared attribute is named, contains two keys
\* mapped to different configs, and the constructor has raised.
C3_Witness ==
    /\ nw_res.op = "__init__"
    /\ Len(nw_in.node_attrs_list) = 1
    /\ DeclaredPositions = {}
    /\ \E n \in DeclaredNames :
          /\ Cardinality(MatchingKeys(nw_in.op_cfg, n)) = 2
          /\ \E i, j \in MatchingKeys(nw_in.op_cfg, n) :
                nw_in.op_cfg.attr_weights_configs_mapping[i][2] #
                    nw_in.op_cfg.attr_weights_configs_mapping[j][2]
    /\ nw_res.status = "Exception"

---------------------------------------------------------------------------
(* Properties of attribute lookup (SpecNW).                                *)

\* Stored named keys that contain the queried name.
StoredKeysContaining(name) ==
    {k \in DOMAIN nw.attributes_config_mapping : IsSubstring(name, k)}

\* C4: the outcome of get_attr_config.  Integer key: the positional
\* mapping's config, an exception when absent.  String key: an exception
\* when no stored key contains it; the containing key's config when exactly
\* one does; with several, the config stored under exactly the queried name,
\* an exception when there is none.
C4_GetAttrConfig ==
    nw_res.op = "get_attr_config" =>
        /\ nw_res.arg.kind = "int" =>
              IF nw_res.arg.pos \in DOMAIN nw.pos_attributes_config_mapping
              THEN /\ nw_res.status = "ok"
                   /\ nw_res.value = <<nw.pos_attributes_config_mapping[nw_res.arg.pos]>>
              ELSE nw_res.status = "Exception"
        /\ nw_res.arg.kind = "str" =>
              LET M == StoredKeysContaining(nw_res.arg.name)
              IN  /\ M = {} => nw_res.status = "Exception"
                  /\ Cardinality(M) = 1 =>
                        /\ nw_res.status = "ok"
                        /\ \A k \in M : nw_res.value = <<nw.attributes_config_mapping[k]>>
                  /\ Cardinality(M) > 1 =>
                        IF nw_res.arg.name \in DOMAIN nw.attributes_config_mapping
                        THEN /\ nw_res.status = "ok"
                             /\ nw_res.value =
                                    <<nw.attributes_config_mapping[nw_res.arg.name]>>
                        ELSE nw_res.status = "Exception"

\* C4 witness: a lookup by a name that is no stored key but is contained in
\* exactly one stored key has returned that key's config, while another
\* stored attribute holds a different config.
C4_Witness ==
    /\ nw_res.op = "get_attr_config"
    /\ nw_res.arg.kind = "str"
    /\ nw_res.arg.name \notin DOMAIN nw.attributes_config_mapping
    /\ Cardinality(StoredKeysContaining(nw_res.arg.name)) = 1
    /\ nw_res.status = "ok"
    /\ \E k \in DOMAIN nw.attributes_config_mapping :
          <<nw.attributes_config_mapping[k]>> # nw_res.value

---------------------------------------------------------------------------
(* Properties of WeightsAttrQuantizationConfig (SpecWA).                   *)

\* C5: a calculate_and_set_weights_params or set_weights_quantization_param
\* call on a config whose enable_weights_quantization is false ends in an
\* AssertionError, the params function is not called, and the stored
\* numeric parameters are what they were before the call.
C5_DisabledFailsAssertion ==
    [][ (/\ wa_res'.op \in {"calculate_and_set_weights_params",
                            "set_weights_quantization_param"}
         /\ ~wa.enable_weights_quantization)
        => /\ wa_res'.status = "AssertionError"
           /\ ~wa_res'.call.called
           /\ wa'.weights_quantization_params = wa.weights_quantization_params ]_vars

\* C5 witness: calculate_and_set_weights_params has failed its assertion on
\* a disabled config that has a params function bound and parameters stored.
C5_Witness ==
    /\ wa_res.op = "calculate_and_set_weights_params"
    /\ wa_res.status = "AssertionError"
    /\ ~wa.enable_weights_quantization
    /\ wa.weights_quantization_params_fn # None
    /\ wa.weights_quantization_params # EmptyDict

\* C6 as stated: after calculate_and_set_weights_params on an enabled config
\* with no params function bound, the numeric-parameter mapping is empty,
\* whatever it held before.
C6_EmptyAfterUnboundCalculate ==
    (/\ wa_res.op = "calculate_and_set_weights_params"
     /\ wa.enable_weights_quantization
     /\ wa.weights_quantization_params_fn = None)
        => wa.weights_quantization_params = EmptyDict

\* C6 amended: calculate_and_set_weights_params on an enabled config with no
\* params function bound succeeds, calls nothing and leaves the
\* numeric-parameter mapping as it was (empty only if it was empty before).
C6_UnchangedAfterUnboundCalculate ==
    [][ (/\ wa_res'.op = "calculate_and_set_weights_params"
         /\ wa.enable_weights_quantization
         /\ wa.weights_quantization_params_fn = None)
        => /\ wa_res'.status = "ok"
           /\ ~wa_res'.call.called
           /\ wa'.weights_quantization_params = wa.weights_quantization_params ]_vars

\* C6 witness: the call has returned on an enabled config with no function
\* bound whose parameters were populated earlier, and they are still there.
C6_Witness ==
    /\ wa_res.op = "calculate_and_set_weights_params"
    /\ wa_res.status = "ok"
    /\ wa.enable_weights_quantization
    /\ wa.weights_quantization_params_fn = None
    /\ wa.weights_quantization_params # EmptyDict

\* C7: after calculate_and_set_weights_params on an enabled config with a
\* params function bound, the function has been called with per_channel
\* equal to (weights_per_channel_threshold and a channel axis is present),
\* also when no channel axis is present, and every key of its result is
\* stored with the returned value.
C7_PerChannelFlag ==
    (/\ wa_res.op = "calculate_and_set_weights_params"
     /\ wa.enable_weights_quantization
     /\ wa.weights_quantization_params_fn # None)
        => /\ wa_res.call.called
           /\ wa_res.call.per_channel =
                  (wa.weights_per_channel_threshold /\ wa.weights_channels_axis # None)
           /\ \A k \in DOMAIN wa_res.call.result :
                  /\ k \in DOMAIN wa.weights_quantization_params
                  /\ wa.weights_quantization_params[k] = wa_res.call.result[k]

\* C8 as stated: the channel axis passed to the params function is the
\* output_axis component of the stored pair (input_axis, output_axis), that
\* is, its second component.
C8_PassesSecondComponent ==
    (wa_res.op = "calculate_and_set_weights_params" /\ wa_res.call.called)
        => wa_res.call.channel_axis = wa.weights_channels_axis[2]

\* C8 amended: the channel axis passed to the params function is the first
\* component (Python index 0) of the stored pair, which the code takes to be
\* the output channel axis; the second component is never the one passed.
C8_PassesFirstComponent ==
    (wa_res.op = "calculate_and_set_weights_params" /\ wa_res.call.called)
        => wa_res.call.channel_axis = wa.weights_channels_axis[1]

\* C8 witness: the params function has been called by a config whose stored
\* pair has two different components.
C8_Witness ==
    /\ wa_res.op = "calculate_and_set_weights_params"
    /\ wa_res.call.called
    /\ wa.weights_channels_axis[1] # wa.weights_channels_axis[2]

---------------------------------------------------------------------------
(* Properties of the params-function binding (SpecBind).                   *)

\* C9: right after the constructor or any later assignment to
\* weights_error_method (resp. activation_error_method) the bound params
\* function is the registry's entry for the config's current quantization
\* method, whatever error method was assigned and whatever function was
\* passed to the constructor or installed before.
C9_ErrorMethodRebinds ==
    /\ (wa_res.op = "__init__" \/
        (wa_res.op = "setattr" /\ wa_res.arg = "weights_error_method"))
          => wa.weights_quantization_params_fn =
                 get_weights_quantization_params_fn(wa.weights_quantization_method)
    /\ (act_res.op = "__init__" \/
        (act_res.op = "setattr" /\ act_res.arg = "activation_error_method"))
          => act.activation_quantization_params_fn =
                 get_activation_quantization_params_fn(act.activation_quantization_method)

\* C9 witness: both error methods have just been assigned on configs that
\* had a user-installed params function bound, and both are rebound.
C9_Witness ==
    /\ act_res.op = "setattr" /\ act_res.arg = "activation_error_method"
    /\ act_res.prev_fn = <<"user_fn", "f">>
    /\ act.activation_quantization_params_fn # act_res.prev_fn
    /\ wa_res.op = "setattr" /\ wa_res.arg = "weights_error_method"
    /\ wa_res.prev_fn = <<"user_fn", "f">>
    /\ wa.weights_quantization_params_fn # wa_res.prev_fn

---------------------------------------------------------------------------
(* Properties of the threshold propagation (SpecGraph).                    *)

\* C10: after substitute(graph, node) on a Concatenate node, every direct
\* predecessor with exactly one successor has the threshold parameter the
\* node had when the call started.
C10_PredecessorsTakeConcatThreshold ==
    g_res.op = "substitute" =>
        \A p \in 1..NumNodes :
            (<<p, g_res.node>> \in g_edges /\
             Cardinality({m \in 1..NumNodes : <<p, m>> \in g_edges}) = 1)
                => /\ THRESHOLD \in DOMAIN g_params[p]
                   /\ g_params[p][THRESHOLD] = ParamsGet(g_res.pre[g_res.node], THRESHOLD)

\* C10 witness: substitute has run on a node holding a threshold, with one
\* predecessor of fan-out one whose threshold was different before the call
\* and another predecessor that feeds a second node.
C10_Witness ==
    /\ g_res.op = "substitute"
    /\ ParamsGet(g_res.pre[g_res.node], THRESHOLD) # None
    /\ \E p, q \in 1..NumNodes :
          /\ <<p, g_res.node>> \in g_edges
          /\ <<q, g_res.node>> \in g_edges
          /\ Cardinality({m \in 1..NumNodes : <<p, m>> \in g_edges}) = 1
          /\ Cardinality({m \in 1..NumNodes : <<q, m>> \in g_edges}) > 1
          /\ ParamsGet(g_res.pre[p], THRESHOLD) # ParamsGet(g_res.pre[g_res.node], THRESHOLD)
          /\ ParamsGet(g_params[p], THRESHOLD) = ParamsGet(g_res.pre[g_res.node], THRESHOLD)

\* The direct predecessors of a node that feed that node alone.
FanOutOnePredecessors(node) ==
    {p \in 1..NumNodes :
        /\ <<p, node>> \in g_edges
        /\ Cardinality({m \in 1..NumNodes : <<p, m>> \in g_edges}) = 1}

\* C11: a substitute(graph, node) call changes nothing except the threshold
\* parameter of the node's direct predecessors with fan-out one: the edges,
\* the parameters of every other node (predecessors with more than one
\* successor, the node itself, non-predecessors) and every non-threshold
\* parameter of every node are what they were, and the threshold every node
\* holds afterwards is the threshold some node held before the call.
C11_SubstituteFrame ==
    [][ g_res'.op = "substitute" =>
          /\ g_edges' = g_edges
          /\ g_concat' = g_concat
          /\ DOMAIN g_params' = DOMAIN g_params
          /\ \A n \in 1..NumNodes :
                /\ n \notin FanOutOnePredecessors(g_res'.node) => g_params'[n] = g_params[n]
                /\ DOMAIN g_params'[n] \ {THRESHOLD} = DOMAIN g_params[n] \ {THRESHOLD}
                /\ \A k \in DOMAIN g_params[n] \ {THRESHOLD} : g_params'[n][k] = g_params[n][k]
                /\ \E m \in 1..NumNodes :
                      ParamsGet(g_params'[n], THRESHOLD) = ParamsGet(g_params[m], THRESHOLD)
      ]_vars

\* C11 witness: substitute has run on a node with a threshold; a fan-out-one
\* predecessor holding a scale took a threshold different from its own and
\* kept the scale, while a predecessor with a second successor and a
\* different threshold was left alone.
C11_Witness ==
    /\ g_res.op = "substitute"
    /\ ParamsGet(g_res.pre[g_res.node], THRESHOLD) # None
    /\ \E p \in FanOutOnePredecessors(g_res.node) :
          /\ "scale" \in DOMAIN g_params[p]
          /\ THRESHOLD \in DOMAIN g_res.pre[p]
          /\ g_res.pre[p][THRESHOLD] # g_params[p][THRESHOLD]
    /\ \E q \in 1..NumNodes :
          /\ <<q, g_res.node>> \in g_edges
          /\ q \notin FanOutOnePredecessors(g_res.node)
          /\ ParamsGet(g_params[q], THRESHOLD) # ParamsGet(g_params[g_res.node], THRESHOLD)
          /\ g_params[q] = g_res.pre[q]

---------------------------------------------------------------------------
(* Properties of the NodeWeightsQuantizationConfig setters (SpecSet).      *)

\* The stored attribute keys, named and positional.
StoredKeys ==
    {StrAttr(k) : k \in DOMAIN nw.attributes_config_mapping}
        \cup {IntAttr(i) : i \in DOMAIN nw.pos_attributes_config_mapping}

\* The config stored under a key in a node config.
StoredCfg(self, key) ==
    IF key.kind = "int" THEN self.pos_attributes_config_mapping[key.pos]
    ELSE self.attributes_config_mapping[key.name]

\* The stored keys an attr_name resolves to (at most one): the position
\* itself; the only stored name containing it; with several such names, the
\* name itself when it is stored.
ResolvedKeys(a) ==
    IF a.kind = "int" THEN {k \in StoredKeys : k = a}
    ELSE IF a.kind = "str"
    THEN IF Cardinality(StoredKeysContaining(a.name)) = 1
         THEN {StrAttr(k) : k \in StoredKeysContaining(a.name)}
         ELSE {k \in StoredKeys : k = a}
    ELSE {}

\* An attr_name that matches no stored attribute.
MatchesNothing(a) ==
    IF a.kind = "int" THEN a \notin StoredKeys ELSE StoredKeysContaining(a.name) = {}

\* C12 as stated: set_quant_config_attr(param, value, attr_name=a) with a
\* resolving to a stored attribute config sets that attribute's field param
\* to value and leaves the same field of every other stored attribute
\* config, named or positional, and all node-level fields unchanged; with a
\* matching no stored attribute it raises and changes nothing.
C12_OnlyResolvedAttrChanges ==
    [][ (nw_res'.op = "set_quant_config_attr" /\ nw_res'.arg # NoneAttr) =>
          /\ \A K \in ResolvedKeys(nw_res'.arg) :
                HasAttr(StoredCfg(nw, K), nw_res'.name) =>
                    /\ nw_res'.status = "ok"
                    /\ StoredCfg(nw', K)[nw_res'.name] = nw_res'.param
                    /\ \A k \in StoredKeys \ {K} :
                          StoredCfg(nw', k)[nw_res'.name] = StoredCfg(nw, k)[nw_res'.name]
                    /\ \A f \in NodeLevelFields : nw'[f] = nw[f]
          /\ MatchesNothing(nw_res'.arg) =>
                /\ nw_res'.status = "Exception"
                /\ nw' = nw
      ]_vars

\* C12 amended: the field changes on the resolved attribute's config object
\* and therefore on every key that stores that same object (set_attr_config
\* stores the object it is given, so one object can sit under several
\* keys); the same field of every stored config that is a different object,
\* every other field, the key sets and all node-level fields are unchanged.
\* With a matching no stored attribute the call raises and changes nothing.
\* All of this holds while the instance's lookup methods are the class's.
\* Once an earlier base-setter call has stored a value under the name of
\* has_attribute_config or (for a str attr_name)
\* _extract_config_for_attributes_with_name, the call raises TypeError and
\* changes nothing; once one is stored under the name of get_attr_config,
\* the call raises TypeError and changes nothing when some stored attribute
\* matches, and still raises the not-found error when none does.
C12_ResolvedObjectChanges ==
    [][ (nw_res'.op = "set_quant_config_attr" /\ nw_res'.arg # NoneAttr) =>
          IF \/ Hidden(nw, {"has_attribute_config"} \cup ExtractMethods(nw_res'.arg))
             \/ /\ has_attribute_config(nw, nw_res'.arg).truth
                /\ Hidden(nw, {"get_attr_config"})
          THEN /\ nw_res'.status = "TypeError"
               /\ nw' = nw
          ELSE
          /\ \A K \in ResolvedKeys(nw_res'.arg) :
                HasAttr(StoredCfg(nw, K), nw_res'.name) =>
                    /\ nw_res'.status = "ok"
                    /\ DOMAIN nw'.attributes_config_mapping =
                           DOMAIN nw.attributes_config_mapping
                    /\ DOMAIN nw'.pos_attributes_config_mapping =
                           DOMAIN nw.pos_attributes_config_mapping
                    /\ \A k \in StoredKeys :
                          IF IdOf(nw_ids, k) = IdOf(nw_ids, K)
                          THEN StoredCfg(nw', k) =
                                   [StoredCfg(nw, k) EXCEPT ![nw_res'.name] = nw_res'.param]
                          ELSE StoredCfg(nw', k) = StoredCfg(nw, k)
                    /\ \A f \in DOMAIN nw \ {"attributes_config_mapping",
                                             "pos_attributes_config_mapping"} :
                          nw'[f] = nw[f]
          /\ MatchesNothing(nw_res'.arg) =>
                /\ nw_res'.status = "Exception"
                /\ nw' = nw
      ]_vars

\* C12 witness: the setter was called with a name that is no stored key but
\* is contained in exactly one; that attribute's field took a new value,
\* while a named and a positional attribute holding other objects kept theirs.
C12_Witness ==
    /\ nw_res.op = "set_quant_config_attr"
    /\ nw_res.status = "ok"
    /\ nw_res.name = "weights_n_bits"
    /\ nw_res.arg.kind = "str"
    /\ nw_res.arg \notin StoredKeys
    /\ \E K \in ResolvedKeys(nw_res.arg) :
          /\ StoredCfg(nw_res.pre, K).weights_n_bits # nw_res.param
          /\ StoredCfg(nw, K).weights_n_bits = nw_res.param
          /\ \E k \in StoredKeys :
                /\ k.kind = "int"
                /\ IdOf(nw_ids, k) # IdOf(nw_ids, K)
                /\ StoredCfg(nw, k).weights_n_bits # nw_res.param

---------------------------------------------------------------------------
(* Properties of the generic setter and of the activation config (SpecAct).*)

\* C13 as stated: the base set_quant_config_attr(name, value), on an
\* activation config or on a node weights config with attr_name omitted,
\* overwrites the attribute when the instance has an attribute of that name
\* and leaves every other field unchanged; otherwise it returns normally
\* having only warned: no field is added or changed.
C13_BaseSetterOnlyNamedField ==
    [][ /\ act_res'.op = "set_quant_config_attr" =>
              IF HasAttr(act, act_res'.arg)
              THEN /\ act_res'.status = "ok"
                   /\ DOMAIN act' = DOMAIN act \cup {act_res'.arg}
                   /\ act'[act_res'.arg] = act_res'.param
                   /\ \A f \in DOMAIN act \ {act_res'.arg} : act'[f] = act[f]
              ELSE /\ act_res'.status = "ok" /\ act_res'.warned
                   /\ act' = act
        /\ (nw_res'.op = "set_quant_config_attr" /\ nw_res'.arg = NoneAttr) =>
              IF HasAttr(nw, nw_res'.name)
              THEN /\ nw_res'.status = "ok"
                   /\ DOMAIN nw' = DOMAIN nw \cup {nw_res'.name}
                   /\ nw'[nw_res'.name] = nw_res'.param
                   /\ \A f \in DOMAIN nw \ {nw_res'.name} : nw'[f] = nw[f]
              ELSE /\ nw_res'.status = "ok" /\ nw_res'.warned
                   /\ nw' = nw
      ]_vars

\* The names setattr refuses for a value that is neither a dict nor a class.
RefusedNames == {"__class__", "__dict__", "__weakref__"}

\* C13 amended: as stated, with an attribute being whatever hasattr finds
\* (a field of the instance, or a method or property of its class, which
\* the stored value then hides), except that activation_error_method is a
\* property whose setter also rebinds activation_quantization_params_fn to
\* the registry entry of the current quantization method, and that for
\* __class__, __dict__ and __weakref__ with a value that is neither a dict
\* nor a class (a number, a string, a boolean, an enum member) the call
\* raises and changes nothing.
\* Every field other than the named one and, for activation_error_method,
\* the bound params function is unchanged.
C13_BaseSetterFrame ==
    [][ /\ act_res'.op = "set_quant_config_attr" =>
              IF ~HasAttr(act, act_res'.arg)
              THEN /\ act_res'.status = "ok" /\ act_res'.warned
                   /\ act' = act
              ELSE IF act_res'.arg \in RefusedNames
              THEN /\ act_res'.status \in {"TypeError", "AttributeError"}
                   /\ act' = act
              ELSE /\ act_res'.status = "ok"
                   /\ DOMAIN act' = DOMAIN act \cup {act_res'.arg}
                   /\ act'[act_res'.arg] = act_res'.param
                   /\ \A f \in DOMAIN act \ {act_res'.arg} :
                         IF act_res'.arg = "activation_error_method"
                            /\ f = "activation_quantization_params_fn"
                         THEN act'[f] = get_activation_quantization_params_fn(
                                            act.activation_quantization_method)
                         ELSE act'[f] = act[f]
        /\ (nw_res'.op = "set_quant_config_attr" /\ nw_res'.arg = NoneAttr) =>
              IF ~HasAttr(nw, nw_res'.name)
              THEN /\ nw_res'.status = "ok" /\ nw_res'.warned
                   /\ nw' = nw
              ELSE IF nw_res'.name \in RefusedNames
              THEN /\ nw_res'.status \in {"TypeError", "AttributeError"}
                   /\ nw' = nw
              ELSE /\ nw_res'.status = "ok"
                   /\ DOMAIN nw' = DOMAIN nw \cup {nw_res'.name}
                   /\ nw'[nw_res'.name] = nw_res'.param
                   /\ \A f \in DOMAIN nw \ {nw_res'.name} : nw'[f] = nw[f]
      ]_vars

\* C13 witness: the setter has overwritten activation_error_method with a
\* different value on a config that had a user params function installed,
\* which is now replaced by the registry's.
C13_Witness ==
    /\ act_res.op = "set_quant_config_attr"
    /\ act_res.arg = "activation_error_method"
    /\ act_res.pre.activation_error_method # act_res.param
    /\ act.activation_error_method = act_res.param
    /\ act_res.prev_fn = <<"user_fn", "f">>
    /\ act.activation_quantization_params_fn # act_res.prev_fn

\* C14: set_activation_quantization_param(params) on a config with
\* activation quantization enabled returns with every key of params mapped
\* to its new value and every other stored key mapped to its old value; on
\* a disabled config it ends in an AssertionError with the mapping unchanged.
C14_MergeUpdate ==
    [][ act_res'.op = "set_activation_quantization_param" =>
          IF act.enable_activation_quantization
          THEN /\ act_res'.status = "ok"
               /\ DOMAIN act'.activation_quantization_params =
                      DOMAIN act.activation_quantization_params \cup DOMAIN act_res'.params
               /\ \A k \in DOMAIN act_res'.params :
                      act'.activation_quantization_params[k] = act_res'.params[k]
               /\ \A k \in DOMAIN act.activation_quantization_params \ DOMAIN act_res'.params :
                      act'.activation_quantization_params[k] =
                          act.activation_quantization_params[k]
          ELSE /\ act_res'.status = "AssertionError"
               /\ act'.activation_quantization_params = act.activation_quantization_params
      ]_vars

\* C14 witness: an update has overwritten one stored key with a different
\* value and kept another stored key that the update did not name.
C14_Witness ==
    /\ act_res.op = "set_activation_quantization_param"
    /\ act_res.status = "ok"
    /\ \E k \in DOMAIN act_res.pre.activation_quantization_params \ DOMAIN act_res.params :
          act.activation_quantization_params[k] =
              act_res.pre.activation_quantization_params[k]
    /\ \E k \in DOMAIN act_res.pre.activation_quantization_params \cap DOMAIN act_res.params :
          act_res.pre.activation_quantization_params[k] # act_res.params[k]

\* C15: quantize_node_output(tensors) with a factory that builds a callable
\* returns that callable's output for the config's current activation_n_bits
\* and activation_quantization_params and the given tensors; with a factory
\* that returns None the call raises and returns no output.
C15_QuantizeNodeOutput ==
    act_res.op = "quantize_node_output" =>
        /\ act.activation_quantization_fn = <<"user_fn", "q">> =>
              /\ act_res.status = "ok"
              /\ act_res.output.n_bits = act.activation_n_bits
              /\ act_res.output.params = act.activation_quantization_params
              /\ act_res.output.tensors = act_res.arg
        /\ act.activation_quantization_fn = <<"user_fn", "none">> =>
              /\ act_res.status # "ok"
              /\ act_res.output = NoOutput

\* C15 witness: an output was returned by a config whose bit-width was
\* changed after construction and whose parameters were populated.
C15_Witness ==
    /\ act_res.op = "quantize_node_output"
    /\ act_res.status = "ok"
    /\ act.activation_n_bits = 4
    /\ act.activation_quantization_params # EmptyDict
    /\ act_res.output.params = act.activation_quantization_params

---------------------------------------------------------------------------
(* Properties of the attribute lookups (SpecHas).                          *)

\* C16: has_attribute_config(name) returns the boolean True exactly when
\* get_attr_config(name) on the same mappings returns a config, and the
\* boolean False exactly when get_attr_config(name) fails.
C16_HasIffGet ==
    nw_res.op = "has_attribute_config" =>
        IF get_attr_config(nw, nw_res.arg).status = "ok"
        THEN nw_res.returned = ReturnedBool(TRUE)
        ELSE nw_res.returned = ReturnedBool(FALSE)

\* C17: set_attr_config(k, c) stores c under k, in the positional mapping
\* for an integer k and in the named mapping for a string k, whether or not
\* k was stored before; every other key of either mapping keeps its config,
\* the node-level fields are unchanged, and get_attr_config(k) on the
\* resulting config returns c, whatever else is stored.
C17_SetThenGet ==
    [][ nw_res'.op = "set_attr_config" =>
          /\ nw_res'.arg.kind = "int" =>
                /\ DOMAIN nw'.pos_attributes_config_mapping =
                       DOMAIN nw.pos_attributes_config_mapping \cup {nw_res'.arg.pos}
                /\ nw'.pos_attributes_config_mapping[nw_res'.arg.pos] = nw_res'.value[1]
                /\ \A p \in DOMAIN nw.pos_attributes_config_mapping \ {nw_res'.arg.pos} :
                      nw'.pos_attributes_config_mapping[p] = nw.pos_attributes_config_mapping[p]
                /\ nw'.attributes_config_mapping = nw.attributes_config_mapping
          /\ nw_res'.arg.kind = "str" =>
                /\ DOMAIN nw'.attributes_config_mapping =
                       DOMAIN nw.attributes_config_mapping \cup {nw_res'.arg.name}
                /\ nw'.attributes_config_mapping[nw_res'.arg.name] = nw_res'.value[1]
                /\ \A n \in DOMAIN nw.attributes_config_mapping \ {nw_res'.arg.name} :
                      nw'.attributes_config_mapping[n] = nw.attributes_config_mapping[n]
                /\ nw'.pos_attributes_config_mapping = nw.pos_attributes_config_mapping
          /\ \A f \in NodeLevelFields : nw'[f] = nw[f]
          /\ get_attr_config(nw', nw_res'.arg).status = "ok"
          /\ get_attr_config(nw', nw_res'.arg).value = nw_res'.value
      ]_vars

\* C17 witness: set_attr_config has replaced the config of a stored name
\* by a different one while another stored name that contains it holds yet
\* another config.
C17_Witness ==
    /\ nw_res.op = "set_attr_config"
    /\ nw_res.arg.kind = "str"
    /\ nw_res.arg.name \in DOMAIN Constructed(nw_in).attributes_config_mapping
    /\ <<Constructed(nw_in).attributes_config_mapping[nw_res.arg.name]>> # nw_res.value
    /\ nw.attributes_config_mapping[nw_res.arg.name] = nw_res.value[1]
    /\ \E n \in DOMAIN nw.attributes_config_mapping \ {nw_res.arg.name} :
          /\ IsSubstring(nw_res.arg.name, n)
          /\ <<nw.attributes_config_mapping[n]>> # nw_res.value

\* C18: two activation configs, and two weights attribute configs, built from
\* identical inputs compare equal and hash equal; two instances that differ
\* in exactly one tracked field (fourteen for the activation config, nine
\* for the weights attribute config) compare unequal.
DiffersOnlyIn(a, b, f) ==
    /\ a[f] # b[f]
    /\ \A g \in DOMAIN a \ {f} : a[g] = b[g]

C18_ActTracked ==
    {"activation_quantization_fn", "activation_quantization_params_fn",
     "activation_error_method", "activation_quantization_method", "activation_n_bits",
     "enable_activation_quantization", "activation_channel_equalization", "input_scaling",
     "min_threshold", "l_p_value", "shift_negative_activation_correction", "z_threshold",
     "shift_negative_ratio", "shift_negative_threshold_recalculation"}

C18_WeightsTracked ==
    {"weights_quantization_fn", "weights_quantization_params_fn", "weights_channels_axis",
     "weights_error_method", "weights_quantization_method", "weights_n_bits",
     "weights_per_channel_threshold", "enable_weights_quantization", "l_p_value"}

C18_StructuralEquality ==
    /\ act_res.op = "__eq__" =>
          /\ act_res.other = act_res.twin =>
                act_res.result /\ act_res.hashes_equal
          /\ (\E f \in C18_ActTracked : DiffersOnlyIn(act, act_res.other, f)) =>
                ~act_res.result
    /\ wa_res.op = "__eq__" =>
          /\ wa_res.other = wa_res.twin =>
                wa_res.result /\ wa_res.hashes_equal
          /\ (\E f \in C18_WeightsTracked : DiffersOnlyIn(wa, wa_res.other, f)) =>
                ~wa_res.result

C18_Witness ==
    /\ act_res.op = "__eq__"
    /\ DiffersOnlyIn(act, act_res.other, "shift_negative_threshold_recalculation")
    /\ ~act_res.result

\* C19: two node weights configs are equal exactly when their node-level
\* fields agree, both mappings have the same keys, and the configs under each
\* key agree on the nine tracked fields; equal configs hash equal, and the
\* order in which the attributes were given does not matter.
C19_SameContent(a, b) ==
    /\ \A f \in {"min_threshold", "simd_size", "weights_second_moment_correction",
                  "weights_bias_correction"} : a[f] = b[f]
    /\ DOMAIN a.attributes_config_mapping = DOMAIN b.attributes_config_mapping
    /\ DOMAIN a.pos_attributes_config_mapping = DOMAIN b.pos_attributes_config_mapping
    /\ \A k \in DOMAIN a.attributes_config_mapping : \A f \in C18_WeightsTracked :
           a.attributes_config_mapping[k][f] = b.attributes_config_mapping[k][f]
    /\ \A k \in DOMAIN a.pos_attributes_config_mapping : \A f \in C18_WeightsTracked :
           a.pos_attributes_config_mapping[k][f] = b.pos_attributes_config_mapping[k][f]

C19_NodeWeightsEquality ==
    nw_res.op = "__eq__" =>
        /\ nw_res.result <=> C19_SameContent(nw, nw_res.other)
        /\ nw_res.result => nw_res.hashes_equal
        /\ nw_res.kind = "reordered" => nw_res.result

C19_Witness ==
    /\ nw_res.op = "__eq__"
    /\ nw_res.kind = "reordered"
    /\ Reverse(nw_in.node_attrs_list) # nw_in.node_attrs_list
    /\ DOMAIN nw.attributes_config_mapping # {}
    /\ DOMAIN nw.pos_attributes_config_mapping # {}
    /\ nw_res.result /\ nw_res.hashes_equal

\* The configs of node n as read through a heap.
NodeView(h, n) == [act |-> ActDeref(h, h.cfg[n].act), nw |-> NwDeref(h, n)]

C21_PassMatchesThresholds ==
    (g_res.op = "pass" /\ g_res.visited = g_concat) =>
        \A c \in g_concat : \A p \in get_prev_nodes(g_edges, c) :
            Cardinality(get_next_nodes(g_edges, p)) = 1 =>
                ParamsGet(g_params[p], THRESHOLD) = ParamsGet(g_params[c], THRESHOLD)

\* C22: in every state reached through construction, the param setters,
\* calculate_and_set_weights_params, set_quant_config_attr and the
\* substitution, a config whose enable flag is false holds no numeric
\* parameters.
C22_DisabledHasNoParams ==
    heap # NoHeap =>
        \A n \in CfgNodes :
            /\ ~ActDeref(heap, heap.cfg[n].act).enable_activation_quantization =>
                  DOMAIN ActDeref(heap, heap.cfg[n].act).activation_quantization_params = {}
            /\ \A k \in AttrKeys(heap.cfg[n].nw) :
                  ~AttrCfg(NwDeref(heap, n), k).enable_weights_quantization =>
                      DOMAIN AttrCfg(NwDeref(heap, n), k).weights_quantization_params = {}

\* C23: in every state reached from construction by set_quant_config_attr
\* calls alone, the params function bound to an activation config, and to
\* every weights attribute config, is the registry's function for the
\* config's current quantization method, also after the method was changed.
C23_ParamsFnFollowsMethod ==
    /\ ActLive =>
          act.activation_quantization_params_fn =
              get_activation_quantization_params_fn(act.activation_quantization_method)
    /\ \A k \in AttrKeys(nw) :
          AttrCfg(nw, k).weights_quantization_params_fn =
              get_weights_quantization_params_fn(AttrCfg(nw, k).weights_quantization_method)

\* C24: after any number of forward calls, the weight installed in the
\* wrapped layer for every attribute of dispatcher.weight_quantizers is the
\* quantizer applied once to the weight the layer held at construction; in
\* each call the layer operation runs with all of these weights installed,
\* and the activation quantizers are applied to its outputs.
C24_Module == [wr_res.module EXCEPT !.weights = wr_res.used[1]]

C24_ForwardInstallsQuantizedOnce ==
    (wr_res.op = "forward" /\ wr_res.status = "ok") =>
        LET qs == wrapper.dispatcher.weight_quantizers
            aqs == wrapper.dispatcher.activation_quantizers
            raw == LayerOp(C24_Module, wr_res.x).items
        IN  /\ \A i \in 1..Len(qs) :
                  /\ wrapper.layer.weights[qs[i][1]] =
                         Quantize(qs[i][2], wr_res.module.weights[qs[i][1]], wr_res.training)
                  /\ wr_res.used[1][qs[i][1]] = wrapper.layer.weights[qs[i][1]]
            /\ \A name \in DOMAIN wr_res.module.weights \ {qs[i][1] : i \in 1..Len(qs)} :
                  wrapper.layer.weights[name] = wr_res.module.weights[name]
            /\ wr_res.outputs[1].items =
                   IF aqs = <<>> THEN raw
                   ELSE [i \in 1..Len(raw) |-> ActQuantize(aqs[i], raw[i])]

\* C24 witness: a forward call has run on a wrapper whose layer held, from
\* a direct set_quantize_weights call, a weight that is neither the one of
\* construction nor its quantization; the layer now holds the quantizer
\* applied once to the weight of construction, which quantizing again
\* would change.
C24_Witness ==
    /\ wr_res.op = "forward" /\ wr_res.status = "ok"
    /\ wr_res.pre.layer.weights # wr_res.module.weights
    /\ wr_res.pre.layer.weights["weight"] = Tensor(<<2, 2>>, 9)
    /\ wrapper.dispatcher.weight_quantizers = << <<"weight", "halve">>, <<"bias", "halve">> >>
    /\ wrapper.dispatcher.activation_quantizers # <<>>
    /\ wrapper.layer.weights["weight"] =
           Quantize("halve", wr_res.module.weights["weight"], wr_res.training)
    /\ Quantize("halve", wrapper.layer.weights["weight"], wr_res.training) #
           wrapper.layer.weights["weight"]

====
